---------------------------- MODULE Spec2Model ----------------------------
(***************************************************************************)
(* Airbnb extraction and dashboard utilities:                              *)
(*   - compress_ranges  (scripts/extract_airbnb_forward_calendar.py and    *)
(*                       scripts/extract_airbnb_search_results.py)         *)
(*   - build_calendars  (src/airbnb_dashboard.py) with its helpers         *)
(*                       _expand_date_range, _expand_iso_ranges, _band     *)
(*   - extract_listing, the scroll loop and the card selection of          *)
(*     _extract_from_search_page, persist_results_to_db, the main loops    *)
(*     of the three extractors, and load_grouped_rows of the dashboard     *)
(*                                                                         *)
(* Text is modelled as a sequence of one-character strings, so formatting  *)
(* (isoformat, json.dumps), parsing (fromisoformat, json.loads, the        *)
(* regular expressions) and string ordering (sorted) are computed on       *)
(* characters.  A calendar date is a triple <<year, month, day>>.          *)
(***************************************************************************)
EXTENDS Integers, Sequences, FiniteSets, TLC

VARIABLES
    pc,             \* "call" before the invocation, "done" after it
    dates,          \* compress_ranges: the argument, a list of ISO strings
    ranges,         \* compress_ranges: the returned list of range strings
    rows,           \* build_calendars: the argument, a list of row dicts
    current_year,   \* build_calendars: dt.date.today().year at the call
    built,          \* build_calendars: what the call produced
    arg_text,       \* _expand_date_range: the argument text
    arg_raw,        \* _expand_iso_ranges: the argument raw
    expanded,       \* what the expansion helper handed back
    arg_count,      \* _band: the argument count
    arg_max_count,  \* _band: the argument max_count
    band,           \* _band: the returned band
    inv,            \* invocations in progress side by side, each with its locals
    raw_days,       \* extract_listing: the calendar nodes read from the page
    start_date,     \* extract_listing: the argument start_date
    listing,        \* extract_listing: the returned dict
    max_scrolls,    \* args.max_scrolls
    stop_after_stable_scrolls,  \* args.stop_after_stable_scrolls
    seen_listing_ids,           \* scroll loop: the local seen_listing_ids
    stable_scrolls, \* scroll loop: the local stable_scrolls
    scroll_log,     \* scroll loop: current_ids of every iteration so far
    listings,       \* the listings table: listing_url -> row
    payload,        \* persist_results_to_db: the payloads of the calls so far
    script,         \* main: which extractor is running
    urls,           \* main: the input URLs
    url_i,          \* main: number of URLs the loop is done with
    results,        \* main: the list results (per_source)
    pages,          \* main: the pages opened so far, "open" or "closed"
    row,            \* main of the ratings extractor: the local row
    db_rows,        \* load_grouped_rows: the rows the query returned
    groups,         \* load_grouped_rows: what the call produced
    raw_cards,      \* _extract_from_search_page: the cards read from the page
    search_result   \* _extract_from_search_page: count and results

compressVars == <<dates, ranges>>
buildVars == <<rows, current_year, built>>
expandVars == <<arg_text, arg_raw, expanded>>
bandVars == <<arg_count, arg_max_count, band>>
extractVars == <<raw_days, start_date, listing>>
scrollVars == <<max_scrolls, stop_after_stable_scrolls, seen_listing_ids,
                stable_scrolls, scroll_log>>
dbVars == <<listings, payload>>
mainVars == <<script, urls, url_i, results, pages, row>>
groupVars == <<db_rows, groups>>
cardVars == <<raw_cards, search_result>>
pipelineVars == <<extractVars, scrollVars, dbVars, mainVars, groupVars, cardVars>>
vars == <<pc, dates, ranges, rows, current_year, built, arg_text, arg_raw,
          expanded, arg_count, arg_max_count, band, inv, pipelineVars>>

---------------------------------------------------------------------------
(* Characters *)

DigitChars == <<"0", "1", "2", "3", "4", "5", "6", "7", "8", "9">>
UpperChars == <<"A", "B", "C", "D", "E", "F", "G", "H", "I", "J", "K", "L", "M",
                "N", "O", "P", "Q", "R", "S", "T", "U", "V", "W", "X", "Y", "Z">>
LowerChars == <<"a", "b", "c", "d", "e", "f", "g", "h", "i", "j", "k", "l", "m",
                "n", "o", "p", "q", "r", "s", "t", "u", "v", "w", "x", "y", "z">>

\* U+2013 EN DASH, one character of the text (the module source is ASCII)
EN_DASH == "ndash"

Range(s) == {s[i] : i \in DOMAIN s}

IsDigit(c) == c \in Range(DigitChars)
IsUpper(c) == c \in Range(UpperChars)
IsLower(c) == c \in Range(LowerChars)
IsSpace(c) == c = " "
\* \w of the re module
IsWord(c) == IsDigit(c) \/ IsUpper(c) \/ IsLower(c) \/ c = "_"

IndexOf(c, s) == CHOOSE i \in DOMAIN s : s[i] = c

DigitVal(c) == IndexOf(c, DigitChars) - 1
DigitChar(n) == DigitChars[n + 1]

\* the code point of a character, by which Python orders strings
ord(c) ==
    IF IsDigit(c) THEN 48 + DigitVal(c)
    ELSE IF IsUpper(c) THEN 64 + IndexOf(c, UpperChars)
    ELSE IF IsLower(c) THEN 96 + IndexOf(c, LowerChars)
    ELSE CASE c = " " -> 32
           [] c = "\"" -> 34
           [] c = "," -> 44
           [] c = "-" -> 45
           [] c = "/" -> 47
           [] c = "[" -> 91
           [] c = "]" -> 93
           [] c = "_" -> 95
           [] c = "{" -> 123
           [] c = "}" -> 125
           [] c = EN_DASH -> 8211

RECURSIVE StrLess(_, _)
\* s < t on str: lexicographic by code point, a proper prefix is smaller
StrLess(s, t) ==
    IF t = <<>> THEN FALSE
    ELSE IF s = <<>> THEN TRUE
    ELSE IF ord(Head(s)) /= ord(Head(t)) THEN ord(Head(s)) < ord(Head(t))
    ELSE StrLess(Tail(s), Tail(t))

RECURSIVE InsertSorted(_, _)
InsertSorted(x, s) ==
    IF s = <<>> THEN <<x>>
    ELSE IF StrLess(x, Head(s)) THEN <<x>> \o s
    ELSE <<Head(s)>> \o InsertSorted(x, Tail(s))

RECURSIVE sorted(_)
\* sorted(list of str): ascending, stable
sorted(s) ==
    IF s = <<>> THEN <<>>
    ELSE InsertSorted(s[Len(s)], sorted(SubSeq(s, 1, Len(s) - 1)))

int2(s) == 10 * DigitVal(s[1]) + DigitVal(s[2])
int4(s) == 1000 * DigitVal(s[1]) + 100 * DigitVal(s[2]) + 10 * DigitVal(s[3]) + DigitVal(s[4])

---------------------------------------------------------------------------
(* datetime.date *)

\* the value a failed date construction or parse is modelled by (ValueError)
ValueError == <<>>

IsLeap(y) == y % 4 = 0 /\ (y % 100 /= 0 \/ y % 400 = 0)

DaysInMonth(y, m) ==
    IF m = 2 THEN (IF IsLeap(y) THEN 29 ELSE 28)
    ELSE IF m \in {4, 6, 9, 11} THEN 30 ELSE 31

\* dt.date(year, month, day)
date(y, m, d) ==
    IF y \in 1..9999 /\ m \in 1..12 /\ d \in 1..DaysInMonth(y, m)
    THEN <<y, m, d>>
    ELSE ValueError

RECURSIVE DaysBeforeMonth(_, _)
DaysBeforeMonth(y, m) ==
    IF m = 1 THEN 0 ELSE DaysBeforeMonth(y, m - 1) + DaysInMonth(y, m - 1)

\* date.toordinal(): 0001-01-01 is day 1
toordinal(dd) ==
    LET y == dd[1] - 1
    IN y * 365 + (y \div 4) - (y \div 100) + (y \div 400)
       + DaysBeforeMonth(dd[1], dd[2]) + dd[3]

\* a < b on dates
DateLess(a, b) ==
    \/ a[1] < b[1]
    \/ a[1] = b[1] /\ a[2] < b[2]
    \/ a[1] = b[1] /\ a[2] = b[2] /\ a[3] < b[3]

DateLeq(a, b) == a = b \/ DateLess(a, b)

\* cur + dt.timedelta(days=1)
NextDay(dd) ==
    IF dd[3] < DaysInMonth(dd[1], dd[2]) THEN <<dd[1], dd[2], dd[3] + 1>>
    ELSE IF dd[2] < 12 THEN <<dd[1], dd[2] + 1, 1>>
    ELSE <<dd[1] + 1, 1, 1>>

RECURSIVE DateSpan_HalfOpen(_, _)
\* a comparison slip, while cur < end: the last day is left out
DateSpan_HalfOpen(start, end) ==
    IF DateLess(start, end) THEN <<start>> \o DateSpan_HalfOpen(NextDay(start), end) ELSE <<>>

RECURSIVE DateSpan(_, _)
\* cur = start; while cur <= end: append cur; cur += 1 day
DateSpan(start, end) ==
    IF DateLeq(start, end) THEN <<start>> \o DateSpan(NextDay(start), end) ELSE <<>>

\* date.isoformat(): "%04d-%02d-%02d"
isoformat(dd) ==
    << DigitChar(dd[1] \div 1000), DigitChar((dd[1] \div 100) % 10),
       DigitChar((dd[1] \div 10) % 10), DigitChar(dd[1] % 10), "-",
       DigitChar(dd[2] \div 10), DigitChar(dd[2] % 10), "-",
       DigitChar(dd[3] \div 10), DigitChar(dd[3] % 10) >>

\* the shape YYYY-MM-DD
IsIsoShape(s) ==
    /\ Len(s) = 10
    /\ \A i \in {1, 2, 3, 4, 6, 7, 9, 10} : IsDigit(s[i])
    /\ s[5] = "-" /\ s[8] = "-"

\* dt.date.fromisoformat(s)
fromisoformat(s) ==
    IF IsIsoShape(s)
    THEN date(int4(SubSeq(s, 1, 4)), int2(SubSeq(s, 6, 7)), int2(SubSeq(s, 9, 10)))
    ELSE ValueError

---------------------------------------------------------------------------
(* compress_ranges *)

\* a comparison slip: any later day extends the run
IsDayAfter_AnyLater(cur, prev) == toordinal(cur) - toordinal(prev) >= 1

\* cur - prev == dt.timedelta(days=1)
IsDayAfter(cur, prev) == toordinal(cur) - toordinal(prev) = 1

RECURSIVE ScanRuns_NoFinalAppend(_, _, _, _, _)
\* the append after the loop dropped: the open run is never closed
ScanRuns_NoFinalAppend(dts, i, start, prev, out) ==
    IF i > Len(dts) THEN out
    ELSE IF IsDayAfter(dts[i], prev) THEN ScanRuns_NoFinalAppend(dts, i + 1, start, dts[i], out)
    ELSE ScanRuns_NoFinalAppend(dts, i + 1, dts[i], dts[i], Append(out, <<start, prev>>))

RECURSIVE ScanRuns(_, _, _, _, _)
\* the loop over dts[1:]: the runs closed so far are out, the open run is
\* (start, prev); the final run is closed after the loop
ScanRuns(dts, i, start, prev, out) ==
    IF i > Len(dts) THEN Append(out, <<start, prev>>)
    ELSE IF IsDayAfter(dts[i], prev) THEN ScanRuns(dts, i + 1, start, dts[i], out)
    ELSE ScanRuns(dts, i + 1, dts[i], dts[i], Append(out, <<start, prev>>))

\* a range written with a hyphen between its two days
TO_SEP_Hyphen == <<" ", "-", " ">>

TO_SEP == <<" ", "t", "o", " ">>

\* the conditional dropped: every run rendered as a pair
FormatRun_AlwaysPair(a, b) == isoformat(a) \o TO_SEP \o isoformat(b)

\* f"{a.isoformat()} to {b.isoformat()}" if a != b else a.isoformat()
FormatRun(a, b) ==
    IF a /= b THEN isoformat(a) \o TO_SEP \o isoformat(b) ELSE isoformat(a)

compress_ranges(ds) ==
    IF ds = <<>> THEN <<>>
    ELSE LET srt == sorted(ds)
             dts == [i \in 1..Len(srt) |-> fromisoformat(srt[i])]
             out == ScanRuns(dts, 2, dts[1], dts[1], <<>>)
         IN [i \in 1..Len(out) |-> FormatRun(out[i][1], out[i][2])]

---------------------------------------------------------------------------
(* Text helpers of the dashboard *)

\* None, as the value of a nullable text column or of a missing group: no
\* text holds this element
None == <<"None">>

RECURSIVE SkipWs(_, _)
\* the first position at or after i that holds no whitespace (\s*)
SkipWs(s, i) ==
    IF i <= Len(s) /\ IsSpace(s[i]) THEN SkipWs(s, i + 1) ELSE i

\* the number of digits \d{1,2} takes at position i: greedy, 0 when s[i] is
\* no digit
Digits12(s, i) ==
    IF i > Len(s) \/ ~IsDigit(s[i]) THEN 0
    ELSE IF i + 1 <= Len(s) /\ IsDigit(s[i + 1]) THEN 2 ELSE 1

\* int() of one or two digits
int12(s) == IF Len(s) = 1 THEN DigitVal(s[1]) ELSE int2(s)

\* \b at position i: between s[i-1] and s[i], outside the text is no word
WordBoundary(s, i) ==
    (i > 1 /\ i - 1 <= Len(s) /\ IsWord(s[i - 1])) /= (i <= Len(s) /\ IsWord(s[i]))

MONTH_ABBRS ==
    << <<"J", "a", "n">>, <<"F", "e", "b">>, <<"M", "a", "r">>, <<"A", "p", "r">>,
       <<"M", "a", "y">>, <<"J", "u", "n">>, <<"J", "u", "l">>, <<"A", "u", "g">>,
       <<"S", "e", "p">>, <<"O", "c", "t">>, <<"N", "o", "v">>, <<"D", "e", "c">> >>

\* MONTHS.get(mon_abbr): the month number, 0 for None
MONTHS_get(abbr) ==
    IF abbr \in Range(MONTH_ABBRS) THEN IndexOf(abbr, MONTH_ABBRS) ELSE 0

\* DATE_RANGE_RE matched at position i:
\*   \b([A-Z][a-z]{2})\s+(\d{1,2})\s*[ndash-]\s*(\d{1,2})\b
\* Each \d{1,2} takes all the digits it can: with one digit fewer the next
\* element would face a digit and fail, so backtracking changes nothing.
\* i is where the month starts, j where the first number starts and has
\* n1 digits, k is where the dash is looked for, l where the second number
\* starts and has n2 digits.
DateRangeGroups(s, i, j, n1, k, l, n2) ==
    IF /\ i + 2 <= Len(s)
       /\ WordBoundary(s, i)
       /\ IsUpper(s[i]) /\ IsLower(s[i + 1]) /\ IsLower(s[i + 2])
       /\ j > i + 3
       /\ n1 > 0
       /\ k <= Len(s) /\ s[k] \in {EN_DASH, "-"}
       /\ n2 > 0
       /\ WordBoundary(s, l + n2)
    THEN [ matched |-> TRUE,
           mon_abbr |-> SubSeq(s, i, i + 2),
           start_day |-> SubSeq(s, j, j + n1 - 1),
           end_day |-> SubSeq(s, l, l + n2 - 1) ]
    ELSE [ matched |-> FALSE ]

DateRangeFromDash(s, i, j, n1, k, l) == DateRangeGroups(s, i, j, n1, k, l, Digits12(s, l))

DateRangeFromDay(s, i, j, n1, k) == DateRangeFromDash(s, i, j, n1, k, SkipWs(s, k + 1))

DateRangeFromMonth(s, i, j, n1) == DateRangeFromDay(s, i, j, n1, SkipWs(s, j + n1))

DateRangeMatchAt(s, i) == DateRangeFromMonth(s, i, SkipWs(s, i + 3), Digits12(s, SkipWs(s, i + 3)))

\* DATE_RANGE_RE.search(text): the leftmost match
DateRangeSearch(s) ==
    IF \E i \in 1..Len(s) : DateRangeMatchAt(s, i).matched
    THEN DateRangeMatchAt(s, CHOOSE i \in 1..Len(s) :
                                /\ DateRangeMatchAt(s, i).matched
                                /\ \A h \in 1..(i - 1) : ~DateRangeMatchAt(s, h).matched)
    ELSE [ matched |-> FALSE ]

\* what a helper hands back: the list it returns, or an exception raised
Returned(days) == [ raised |-> FALSE, days |-> days ]
Raised == [ raised |-> TRUE, days |-> <<>> ]

\* the days from start to end, both parsed by fromisoformat, which raises
\* ValueError for a date that does not exist; an end before the start
\* gives no day
SpanOrRaise(start, end) ==
    IF start = ValueError \/ end = ValueError THEN Raised
    ELSE Returned(DateSpan(start, end))

\* start and end built by dt.date(...), which raises ValueError for a day
\* that does not exist; if end < start: return []
SpanUnlessReversed(start, end) ==
    IF start = ValueError \/ end = ValueError THEN Raised
    ELSE IF DateLess(end, start) THEN Returned(<<>>)
    ELSE Returned(DateSpan(start, end))

\* _expand_date_range after the search: m is the match, or no match
ExpandMatch(m, year) ==
    IF ~m.matched THEN Returned(<<>>)
    ELSE IF MONTHS_get(m.mon_abbr) = 0 THEN Returned(<<>>)
    ELSE SpanUnlessReversed( date(year, MONTHS_get(m.mon_abbr), int12(m.start_day)),
                             date(year, MONTHS_get(m.mon_abbr), int12(m.end_day)) )

\* _expand_date_range(text, year); text is "" for a NULL column (text or "")
_expand_date_range(text, year) ==
    ExpandMatch(DateRangeSearch(IF text = None THEN <<>> ELSE text), year)

\* a comparison slip, ratio < 0.25: a quarter of the maximum falls in band 2
_band_StrictQuarter(count, max_count) ==
    IF max_count <= 0 THEN 0
    ELSE IF count <= 0 THEN 0
    ELSE IF 4 * count < max_count THEN 1
    ELSE IF 2 * count <= max_count THEN 2
    ELSE IF 4 * count <= 3 * max_count THEN 3
    ELSE 4

\* the returns of the two middle tests exchanged
_band_MiddleSwapped(count, max_count) ==
    IF max_count <= 0 THEN 0
    ELSE IF count <= 0 THEN 0
    ELSE IF 4 * count <= max_count THEN 1
    ELSE IF 2 * count <= max_count THEN 3
    ELSE IF 4 * count <= 3 * max_count THEN 2
    ELSE 4

\* _band(count, max_count).  ratio = count / max_count is compared with
\* 0.25, 0.5 and 0.75, which are exact in binary floating point, so the
\* comparisons are those of the exact quotient.
_band(count, max_count) ==
    IF max_count <= 0 THEN 0
    ELSE IF count <= 0 THEN 0
    ELSE IF 4 * count <= max_count THEN 1
    ELSE IF 2 * count <= max_count THEN 2
    ELSE IF 4 * count <= 3 * max_count THEN 3
    ELSE 4

---------------------------------------------------------------------------
(* json.dumps / json.loads on lists of strings *)

QUOTE == "\""

RECURSIVE JoinItems(_)
JoinItems(items) ==
    IF items = <<>> THEN <<>>
    ELSE <<QUOTE>> \o Head(items) \o <<QUOTE>>
         \o (IF Len(items) > 1 THEN <<",", " ">> ELSE <<>>) \o JoinItems(Tail(items))

\* json.dumps(list of str), for strings that need no escaping
json_dumps(items) == <<"[">> \o JoinItems(items) \o <<"]">>

RECURSIVE StringEnd(_, _)
\* the position of the quote closing a string whose body starts at i, 0 when
\* the string is not closed
StringEnd(s, i) ==
    IF i > Len(s) THEN 0 ELSE IF s[i] = QUOTE THEN i ELSE StringEnd(s, i + 1)

JsonError == [ kind |-> "JSONDecodeError", items |-> <<>>, next |-> 0 ]
JsonList(items, next) == [ kind |-> "list", items |-> items, next |-> next ]
JsonOther == [ kind |-> "other", items |-> <<>>, next |-> 0 ]

RECURSIVE ParseElements(_, _, _)
RECURSIVE AfterElement(_, _, _)

\* the elements of an array from position i on, a string expected at i
ParseElements(s, i, acc) ==
    IF i > Len(s) \/ s[i] /= QUOTE \/ StringEnd(s, i + 1) = 0 THEN JsonError
    ELSE AfterElement( s, SkipWs(s, StringEnd(s, i + 1) + 1),
                       Append(acc, SubSeq(s, i + 1, StringEnd(s, i + 1) - 1)) )

\* after an element: the closing bracket, or a comma and the next element
AfterElement(s, j, acc) ==
    IF j > Len(s) THEN JsonError
    ELSE IF s[j] = "]" THEN JsonList(acc, j + 1)
    ELSE IF s[j] = "," THEN ParseElements(s, SkipWs(s, j + 1), acc)
    ELSE JsonError

\* json.loads(raw) for the documents the model draws: an array of strings
\* gives its items, a string, a number of digits, null, true, false or {}
\* gives a value that is no list, anything else is a JSONDecodeError
\* the document is over after the value: only whitespace may follow
JsonEnd(s, v) == IF v.kind = "list" /\ SkipWs(s, v.next) > Len(s) THEN v ELSE JsonError

\* an array whose first element, or closing bracket, is looked for at j
JsonArray(s, j) ==
    IF j <= Len(s) /\ s[j] = "]" THEN JsonList(<<>>, j + 1) ELSE ParseElements(s, j, <<>>)

\* a value that is no array, rest being the document from its first character
JsonScalar(rest) ==
    IF Head(rest) = QUOTE THEN
        (IF StringEnd(rest, 2) = Len(rest) THEN JsonOther ELSE JsonError)
    ELSE IF rest \in { <<"n", "u", "l", "l">>, <<"t", "r", "u", "e">>,
                       <<"f", "a", "l", "s", "e">>, <<"{", "}">> }
         THEN JsonOther
    ELSE IF \A x \in DOMAIN rest : IsDigit(rest[x]) THEN JsonOther
    ELSE JsonError

JsonValue(s, i) ==
    IF i > Len(s) THEN JsonError
    ELSE IF s[i] = "[" THEN JsonEnd(s, JsonArray(s, SkipWs(s, i + 1)))
    ELSE JsonScalar(SubSeq(s, i, Len(s)))

json_loads(s) == JsonValue(s, SkipWs(s, 1))

---------------------------------------------------------------------------
(* _expand_iso_ranges *)

\* RANGE_ISO_RE.match(item):
\*   (\d{4}-\d{2}-\d{2})(?:\s+to\s+(\d{4}-\d{2}-\d{2}))?
\* anchored at the start of the item; group 2 is None when the optional
\* part does not match
\* j is where "to" is looked for, k where the second date is looked for
RangeIsoGroups(s, j, k) ==
    IF Len(s) >= 10 /\ IsIsoShape(SubSeq(s, 1, 10))
    THEN [ matched |-> TRUE,
           g1 |-> SubSeq(s, 1, 10),
           g2 |-> IF /\ j > 11
                     /\ j + 1 <= Len(s) /\ s[j] = "t" /\ s[j + 1] = "o"
                     /\ k > j + 2
                     /\ k + 9 <= Len(s)
                     /\ IsIsoShape(SubSeq(s, k, k + 9))
                  THEN SubSeq(s, k, k + 9)
                  ELSE None ]
    ELSE [ matched |-> FALSE ]

RangeIsoFromTo(s, j) == RangeIsoGroups(s, j, SkipWs(s, j + 2))

RangeIsoMatch(s) == RangeIsoFromTo(s, SkipWs(s, 11))

\* the days of one item: none when the pattern does not match (continue),
\* else those from group 1 to group 2 or group 1
ItemDays(m) ==
    IF ~m.matched THEN Returned(<<>>)
    ELSE SpanOrRaise( fromisoformat(m.g1),
                      fromisoformat(IF m.g2 /= None THEN m.g2 ELSE m.g1) )

\* one more item's days appended to out; an exception ends the loop
AppendDays(out, more) == IF out.raised \/ more.raised THEN Raised ELSE Returned(out.days \o more.days)

RECURSIVE ExpandItems(_, _)
\* the loop over the parsed items, out being what was appended so far
ExpandItems(items, out) ==
    IF items = <<>> \/ out.raised THEN out
    ELSE ExpandItems(Tail(items), AppendDays(out, ItemDays(RangeIsoMatch(Head(items)))))

\* _expand_iso_ranges after json.loads
ExpandParsed(parsed) ==
    IF parsed.kind = "JSONDecodeError" THEN Returned(<<>>)
    ELSE IF parsed.kind /= "list" THEN Returned(<<>>)
    ELSE ExpandItems(parsed.items, Returned(<<>>))

\* _expand_iso_ranges(raw)
_expand_iso_ranges(raw) ==
    IF raw = None \/ raw = <<>> THEN Returned(<<>>) ELSE ExpandParsed(json_loads(raw))

---------------------------------------------------------------------------
(* build_calendars *)

\* r.get(key) of a text column
get(r, key) == IF key \in DOMAIN r THEN r[key] ELSE None

\* a default slip, r.get("active", 1): a row without the flag counts
Active_DefaultOn(r) == "active" \notin DOMAIN r \/ r.active /= 0

\* r.get("active") is truthy: the key is there and its value is not 0
Active(r) == "active" \in DOMAIN r /\ r.active /= 0

\* the days one active row hands to the histogram: the expansion of its
\* booked_ranges when that is not empty, else the expansion of its
\* date_range_text in the current year
\* the continue dropped: the free text is counted after the ISO ranges
ResolveDays_Both(detail_days, r, year) ==
    IF detail_days.raised \/ _expand_date_range(get(r, "date_range_text"), year).raised
    THEN Raised
    ELSE Returned(detail_days.days \o _expand_date_range(get(r, "date_range_text"), year).days)

ResolveDays(detail_days, r, year) ==
    IF detail_days.raised THEN Raised
    ELSE IF detail_days.days /= <<>> THEN detail_days
    ELSE _expand_date_range(get(r, "date_range_text"), year)

RowDays(r, year) == ResolveDays(_expand_iso_ranges(get(r, "booked_ranges")), r, year)

\* demand.get(d, 0)
demand_get(demand, d) == IF d \in DOMAIN demand THEN demand[d] ELSE 0

RECURSIVE CountDays(_, _)
\* for d in days: demand[d] = demand.get(d, 0) + 1
CountDays(demand, days) ==
    IF days = <<>> THEN demand
    ELSE CountDays( [ d \in DOMAIN demand \cup {Head(days)} |->
                        IF d = Head(days) THEN demand_get(demand, d) + 1 ELSE demand[d] ],
                    Tail(days) )

\* one row of the loop: skipped when not active, else its days counted
TallyRow(t, r, days) ==
    IF t.raised \/ ~Active(r) THEN t
    ELSE IF days.raised THEN [ raised |-> TRUE, demand |-> << >> ]
    ELSE [ raised |-> FALSE, demand |-> CountDays(t.demand, days.days) ]

RECURSIVE Tally(_, _, _)
\* the loop over the rows: the histogram, or the exception that ended it
Tally(rs, year, t) ==
    IF rs = <<>> \/ t.raised THEN t
    ELSE Tally( Tail(rs), year,
                TallyRow(t, Head(rs), IF Active(Head(rs)) THEN RowDays(Head(rs), year)
                                      ELSE Returned(<<>>)) )

\* date.weekday(): Monday is 0
weekday(dd) == (toordinal(dd) + 6) % 7

\* cur - dt.timedelta(days=1)
PrevDay(dd) ==
    IF dd[3] > 1 THEN <<dd[1], dd[2], dd[3] - 1>>
    ELSE IF dd[2] > 1 THEN <<dd[1], dd[2] - 1, DaysInMonth(dd[1], dd[2] - 1)>>
    ELSE <<dd[1] - 1, 12, 31>>

RECURSIVE DaysBack(_, _)
DaysBack(dd, n) == IF n = 0 THEN dd ELSE DaysBack(PrevDay(dd), n - 1)

RECURSIVE DaysFrom(_, _)
\* n consecutive days, the first being dd
DaysFrom(dd, n) == IF n = 0 THEN <<>> ELSE <<dd>> \o DaysFrom(NextDay(dd), n - 1)

\* calendar.Calendar(firstweekday=0).monthdatescalendar(year, month): the
\* full Monday-first weeks that hold the days of the month
\* the days cut into weeks of 7
Weeks(days) == [ w \in 1..(Len(days) \div 7) |-> SubSeq(days, 7 * (w - 1) + 1, 7 * w) ]

\* lead is the number of days of the first week that precede the month
WeeksOfMonth(y, m, lead) ==
    Weeks(DaysFrom(DaysBack(<<y, m, 1>>, lead), 7 * ((lead + DaysInMonth(y, m) + 6) \div 7)))

\* the first weekday taken for Sunday: firstweekday=6
monthdatescalendar_SundayFirst(y, m) == WeeksOfMonth(y, m, (weekday(<<y, m, 1>>) + 1) % 7)

monthdatescalendar(y, m) == WeeksOfMonth(y, m, weekday(<<y, m, 1>>))

MONTH_NAMES ==
    << <<"J", "a", "n", "u", "a", "r", "y">>,
       <<"F", "e", "b", "r", "u", "a", "r", "y">>,
       <<"M", "a", "r", "c", "h">>,
       <<"A", "p", "r", "i", "l">>,
       <<"M", "a", "y">>,
       <<"J", "u", "n", "e">>,
       <<"J", "u", "l", "y">>,
       <<"A", "u", "g", "u", "s", "t">>,
       <<"S", "e", "p", "t", "e", "m", "b", "e", "r">>,
       <<"O", "c", "t", "o", "b", "e", "r">>,
       <<"N", "o", "v", "e", "m", "b", "e", "r">>,
       <<"D", "e", "c", "e", "m", "b", "e", "r">> >>

\* ym.strftime("%B %Y")
MonthLabel(ym) == MONTH_NAMES[ym[2]] \o <<" ">> \o SubSeq(isoformat(ym), 1, 4)

\* the band measured against the highest count of the cell's own month
DayCell_MonthMax(day, ym, demand, max_count) ==
    IF day[2] /= ym[2] THEN [ empty |-> TRUE ]
    ELSE [ empty |-> FALSE,
           day |-> day[3],
           iso |-> isoformat(day),
           count |-> demand_get(demand, day),
           band |-> _band( demand_get(demand, day),
                           CHOOSE c \in 0..max_count :
                               /\ \A d \in DOMAIN demand :
                                     (d[1] = ym[1] /\ d[2] = ym[2]) => demand[d] <= c
                               /\ \/ c = 0
                                  \/ \E d \in DOMAIN demand :
                                        d[1] = ym[1] /\ d[2] = ym[2] /\ demand[d] = c ) ]

\* one cell of a week: padding from the adjacent month, or a day of the month
DayCell(day, ym, demand, max_count) ==
    IF day[2] /= ym[2] THEN [ empty |-> TRUE ]
    ELSE [ empty |-> FALSE,
           day |-> day[3],
           iso |-> isoformat(day),
           count |-> demand_get(demand, day),
           band |-> _band(demand_get(demand, day), max_count) ]

\* the cells of the weeks of a month
WeekCells(mdc, ym, demand, max_count) ==
    [ w \in DOMAIN mdc |-> [ c \in 1..7 |-> DayCell(mdc[w][c], ym, demand, max_count) ] ]

MonthGrid(ym, demand, max_count) ==
    [ label |-> MonthLabel(ym),
      year |-> ym[1],
      month |-> ym[2],
      weeks |-> WeekCells(monthdatescalendar(ym[1], ym[2]), ym, demand, max_count) ]

\* the first day of the next month
NextMonth(ym) ==
    IF ym[2] = 12 THEN <<ym[1] + 1, 1, 1>> ELSE <<ym[1], ym[2] + 1, 1>>

RECURSIVE MonthGrids_StopBeforeLast(_, _, _, _)
\* a comparison slip, while ym < end_ym: the last month is left out
MonthGrids_StopBeforeLast(ym, end_ym, demand, max_count) ==
    IF DateLess(ym, end_ym)
    THEN <<MonthGrid(ym, demand, max_count)>>
         \o MonthGrids_StopBeforeLast(NextMonth(ym), end_ym, demand, max_count)
    ELSE <<>>

RECURSIVE MonthGrids(_, _, _, _)
\* while ym <= end_ym: append the grid of ym; ym = next month
MonthGrids(ym, end_ym, demand, max_count) ==
    IF DateLeq(ym, end_ym)
    THEN <<MonthGrid(ym, demand, max_count)>>
         \o MonthGrids(NextMonth(ym), end_ym, demand, max_count)
    ELSE <<>>

\* min(demand), max(demand): the earliest and the latest key
MinDate(S) == CHOOSE d \in S : \A e \in S : DateLeq(d, e)
MaxDate(S) == CHOOSE d \in S : \A e \in S : DateLeq(e, d)

\* max(demand.values())
MaxCount(demand) ==
    CHOOSE c \in {demand[d] : d \in DOMAIN demand} : \A d \in DOMAIN demand : demand[d] <= c

\* build_calendars(rows) called while dt.date.today().year is year: the
\* month grids it returns, with the histogram they were built from, or the
\* exception it raised
\* dt.date(d.year, d.month, 1)
FirstOfMonth(d) == <<d[1], d[2], 1>>

\* the part of build_calendars after the loop over the rows
Calendars(t) ==
    IF t.raised THEN [ raised |-> TRUE, demand |-> << >>, calendars |-> <<>> ]
    ELSE IF DOMAIN t.demand = {} THEN
         [ raised |-> FALSE, demand |-> t.demand, calendars |-> <<>> ]
    ELSE [ raised |-> FALSE,
           demand |-> t.demand,
           calendars |-> MonthGrids( FirstOfMonth(MinDate(DOMAIN t.demand)),
                                     FirstOfMonth(MaxDate(DOMAIN t.demand)),
                                     t.demand, MaxCount(t.demand) ) ]

build_calendars(rs, year) == Calendars(Tally(rs, year, [ raised |-> FALSE, demand |-> << >> ]))

---------------------------------------------------------------------------
(* The variables of the helpers while no helper is invoked *)

NoExpansion == arg_text = None /\ arg_raw = None /\ expanded = Returned(<<>>)
NoBand == arg_count = 0 /\ arg_max_count = 0 /\ band = 0

\* The variables of the extractors and of the dashboard loader while they
\* are not running
NoExtract == raw_days = <<>> /\ start_date = <<1, 1, 1>> /\ listing = None
NoScroll ==
    /\ max_scrolls = 0 /\ stop_after_stable_scrolls = 0
    /\ seen_listing_ids = {} /\ stable_scrolls = 0 /\ scroll_log = <<>>
NoDb == listings = <<>> /\ payload = <<>>
NoMain ==
    /\ script = "" /\ urls = <<>> /\ url_i = 0 /\ results = <<>> /\ pages = <<>>
    /\ row = None
NoGroups == db_rows = <<>> /\ groups = <<>>
NoCards == raw_cards = <<>> /\ search_result = None
NoPipeline == NoExtract /\ NoScroll /\ NoDb /\ NoMain /\ NoGroups /\ NoCards
NoCalls ==
    /\ dates = <<>> /\ ranges = <<>>
    /\ rows = <<>> /\ current_year = 0 /\ built = <<>>
    /\ NoExpansion /\ NoBand /\ inv = <<>>

---------------------------------------------------------------------------
(* Invocations of compress_ranges on lists of ISO dates *)

MaxDates == 4

\* the days the argument lists are drawn from: runs, gaps, a month end,
\* a year end
CompressDays ==
    { <<2025, 12, 31>>, <<2026, 1, 1>>, <<2026, 2, 28>>, <<2026, 3, 1>>,
      <<2026, 3, 2>>, <<2026, 3, 3>>, <<2026, 3, 5>> }

CompressInputs ==
    UNION { [1..n -> {isoformat(d) : d \in CompressDays}] : n \in 0..MaxDates }

InitCompress ==
    /\ pc = "call"
    /\ dates \in CompressInputs
    /\ ranges = <<>>
    /\ rows = <<>>
    /\ current_year = 0
    /\ built = <<>>
    /\ NoExpansion /\ NoBand /\ inv = <<>> /\ NoPipeline

CompressRanges ==
    /\ pc = "call"
    /\ ranges' = compress_ranges(dates)
    /\ pc' = "done"
    /\ UNCHANGED <<dates, buildVars, expandVars, bandVars, inv, pipelineVars>>

NextCompress == CompressRanges

SpecCompress == InitCompress /\ [][NextCompress]_vars

---------------------------------------------------------------------------
(* Invocations of build_calendars on lists of listing rows *)

MaxRows == 2

\* free-text card ranges
TEXT_MAR_1_3 == <<"M", "a", "r", " ", "1", EN_DASH, "3">>
TEXT_MAR_5_6 == <<"M", "a", "r", " ", "5", " ", "-", " ", "6">>
TEXT_MAR_6_1 == <<"M", "a", "r", " ", "6", EN_DASH, "1">>
TEXT_XYZ_1_3 == <<"X", "y", "z", " ", "1", EN_DASH, "3">>
TEXT_FEB_28_29 == <<"F", "e", "b", " ", "2", "8", "-", "2", "9">>
TEXT_JUN_31_30 == <<"J", "u", "n", " ", "3", "1", "-", "3", "0">>
TEXT_SOON == <<"s", "o", "o", "n">>

\* booked_ranges documents
ISO_MAR_1_2 == json_dumps(<< FormatRun(<<2026, 3, 1>>, <<2026, 3, 2>>) >>)
ISO_OVERLAP ==
    json_dumps(<< FormatRun(<<2026, 3, 1>>, <<2026, 3, 3>>), isoformat(<<2026, 3, 2>>) >>)
ISO_EMPTY == json_dumps(<<>>)
ISO_FEB_30 == json_dumps(<< <<"2", "0", "2", "6", "-", "0", "2", "-", "3", "0">> >>)
ISO_MONTH_13 == json_dumps(<< <<"2", "0", "2", "6", "-", "1", "3", "-", "0", "1">> >>)
ISO_NOT_JSON == <<"n", "/", "a">>
ISO_NULL == <<"n", "u", "l", "l">>
ISO_YEAR_END == json_dumps(<< FormatRun(<<2026, 12, 31>>, <<2027, 1, 1>>) >>)
ISO_MAR_MAY == json_dumps(<< isoformat(<<2026, 3, 30>>), isoformat(<<2026, 5, 1>>) >>)
ISO_REVERSED ==
    json_dumps(<< isoformat(<<2026, 3, 3>>) \o TO_SEP \o isoformat(<<2026, 3, 1>>) >>)

Row(a, b, t) == [ active |-> a, booked_ranges |-> b, date_range_text |-> t ]

\* the rows the argument lists are drawn from
BuildRows ==
    { Row(1, ISO_MAR_1_2, None),
      Row(1, None, TEXT_MAR_1_3),
      Row(1, ISO_MAR_1_2, TEXT_MAR_5_6),
      Row(1, ISO_OVERLAP, None),
      Row(1, ISO_EMPTY, TEXT_MAR_1_3),
      Row(1, ISO_REVERSED, TEXT_MAR_5_6),
      Row(1, ISO_NOT_JSON, TEXT_MAR_1_3),
      Row(1, ISO_NULL, TEXT_SOON),
      Row(1, ISO_FEB_30, None),
      Row(1, ISO_MONTH_13, TEXT_MAR_1_3),
      Row(1, None, TEXT_MAR_6_1),
      Row(1, None, TEXT_XYZ_1_3),
      Row(1, None, TEXT_FEB_28_29),
      Row(1, None, TEXT_JUN_31_30),
      Row(1, ISO_YEAR_END, None),
      Row(1, ISO_MAR_MAY, None),
      Row(1, None, None),
      Row(0, ISO_MAR_1_2, TEXT_MAR_1_3),
      Row(0, ISO_FEB_30, TEXT_JUN_31_30),
      [ booked_ranges |-> ISO_MAR_MAY, date_range_text |-> TEXT_MAR_5_6 ] }

BuildInputs == UNION { [1..n -> BuildRows] : n \in 0..MaxRows }

\* dt.date.today().year at the call: a common year and a leap year
Years == {2026, 2028}

InitBuild ==
    /\ pc = "call"
    /\ rows \in BuildInputs
    /\ current_year \in Years
    /\ built = [ raised |-> FALSE, demand |-> << >>, calendars |-> <<>> ]
    /\ dates = <<>>
    /\ ranges = <<>>
    /\ NoExpansion /\ NoBand /\ inv = <<>> /\ NoPipeline

BuildCalendars ==
    /\ pc = "call"
    /\ built' = build_calendars(rows, current_year)
    /\ pc' = "done"
    /\ UNCHANGED <<rows, current_year, compressVars, expandVars, bandVars, inv, pipelineVars>>

NextBuild == BuildCalendars

SpecBuild == InitBuild /\ [][NextBuild]_vars

---------------------------------------------------------------------------
(* Reading a list of range strings back as sets of days *)

IsRangeShape(s) ==
    /\ Len(s) = 24
    /\ IsIsoShape(SubSeq(s, 1, 10))
    /\ SubSeq(s, 11, 14) = <<" ", "t", "o", " ">>
    /\ IsIsoShape(SubSeq(s, 15, 24))

\* first and last day named by an output string
RangeStart(s) == fromisoformat(SubSeq(s, 1, 10))
RangeEnd(s) == IF Len(s) = 10 THEN fromisoformat(s) ELSE fromisoformat(SubSeq(s, 15, 24))

WellFormedRange(s) ==
    /\ IsIsoShape(s) \/ IsRangeShape(s)
    /\ RangeStart(s) /= ValueError
    /\ RangeEnd(s) /= ValueError

CoveredDays(s) == Range(DateSpan(RangeStart(s), RangeEnd(s)))

DateSet(ds) == {fromisoformat(ds[i]) : i \in DOMAIN ds}

Distinct(s) == \A i, j \in DOMAIN s : i /= j => s[i] /= s[j]

\* the maximal runs of consecutive days of a set of days
MaximalRuns(D) ==
    { r \in D \X D :
        /\ DateLeq(r[1], r[2])
        /\ Range(DateSpan(r[1], r[2])) \subseteq D
        /\ ~ \E x \in D : NextDay(x) = r[1]
        /\ NextDay(r[2]) \notin D }

---------------------------------------------------------------------------
(* Claims about compress_ranges, checked under SpecCompress *)

\* C1: for a list of distinct ISO dates in any order, every input date is
\* covered by exactly one output range, and the days covered by the output
\* ranges together are exactly the input dates.
C1_CoverExactlyOnce ==
    (pc = "done" /\ Distinct(dates)) =>
        /\ \A k \in DOMAIN ranges : WellFormedRange(ranges[k])
        /\ \A d \in DateSet(dates) :
              Cardinality({k \in DOMAIN ranges : d \in CoveredDays(ranges[k])}) = 1
        /\ UNION {CoveredDays(ranges[k]) : k \in DOMAIN ranges} = DateSet(dates)

\* C1 witness: four distinct dates given out of order, compressed into a
\* multi-day range and a single day.
C1_Witness ==
    /\ pc = "done"
    /\ dates = << isoformat(<<2026, 3, 5>>), isoformat(<<2026, 3, 2>>),
                  isoformat(<<2026, 3, 1>>), isoformat(<<2026, 2, 28>>) >>
    /\ Len(ranges) = 2
    /\ CoveredDays(ranges[1]) = {<<2026, 2, 28>>, <<2026, 3, 1>>, <<2026, 3, 2>>}

\* C2: the output ranges are pairwise disjoint, in ascending order and
\* maximal: each range starts more than one day after its predecessor ends.
C2_DisjointAscendingMaximal ==
    pc = "done" =>
        \A k \in 1..(Len(ranges) - 1) :
            toordinal(RangeStart(ranges[k + 1])) - toordinal(RangeEnd(ranges[k])) > 1

\* C3: an input with repeated dates yields the output of the same input
\* with the repetitions removed, every input date covered exactly once.
C3_DuplicatesCollapsed ==
    pc = "done" =>
        /\ \A e \in [1..Cardinality(Range(dates)) -> Range(dates)] :
              Distinct(e) => compress_ranges(e) = ranges
        /\ \A d \in DateSet(dates) :
              Cardinality({k \in DOMAIN ranges : d \in CoveredDays(ranges[k])}) = 1

\* C4: every output string is either the ISO date of an input day (a run
\* of one day) or "<start> to <end>" with start < end, both ISO dates of
\* input days; for distinct input dates the output strings are exactly the
\* renderings of the maximal runs of the input days, a run of one day as
\* its ISO date and a longer run as "<start> to <end>"; 2026-03-01, -02,
\* -03, -05 give ["2026-03-01 to 2026-03-03", "2026-03-05"].
C4_Rendering ==
    pc = "done" =>
        /\ \A k \in DOMAIN ranges :
              /\ WellFormedRange(ranges[k])
              /\ {RangeStart(ranges[k]), RangeEnd(ranges[k])} \subseteq DateSet(dates)
              /\ IsIsoShape(ranges[k]) \/ DateLess(RangeStart(ranges[k]), RangeEnd(ranges[k]))
        /\ Distinct(dates) =>
              /\ Len(ranges) = Cardinality(MaximalRuns(DateSet(dates)))
              /\ Range(ranges) =
                    { IF r[1] = r[2]
                      THEN isoformat(r[1])
                      ELSE isoformat(r[1]) \o <<" ", "t", "o", " ">> \o isoformat(r[2]) :
                      r \in MaximalRuns(DateSet(dates)) }
        /\ ( /\ Range(dates) = { isoformat(<<2026, 3, 1>>), isoformat(<<2026, 3, 2>>),
                                 isoformat(<<2026, 3, 3>>), isoformat(<<2026, 3, 5>>) }
             /\ Len(dates) = 4 )
           => ranges = << << "2", "0", "2", "6", "-", "0", "3", "-", "0", "1",
                             " ", "t", "o", " ",
                             "2", "0", "2", "6", "-", "0", "3", "-", "0", "3" >>,
                          << "2", "0", "2", "6", "-", "0", "3", "-", "0", "5" >> >>

\* C4 witness: the four dates of the example, given out of order, compressed.
C4_Witness ==
    /\ pc = "done"
    /\ dates = << isoformat(<<2026, 3, 5>>), isoformat(<<2026, 3, 1>>),
                  isoformat(<<2026, 3, 3>>), isoformat(<<2026, 3, 2>>) >>
    /\ Len(ranges) = 2
    /\ Len(ranges[1]) = 24 /\ Len(ranges[2]) = 10

\* C20: compress_ranges returns an empty list for an empty list of dates,
\* and for no other input.
C20_EmptyOnlyForEmpty ==
    pc = "done" => (ranges = <<>> <=> dates = <<>>)

\* C20 witness: the empty list compressed.
C20_Witness ==
    pc = "done" /\ dates = <<>> /\ ranges = <<>>

---------------------------------------------------------------------------
(* Claims about build_calendars, checked under SpecBuild *)

\* the flag is false or missing
Inactive(r) == "active" \notin DOMAIN r \/ r.active = 0

IsoDays(r) == _expand_iso_ranges(get(r, "booked_ranges")).days
TextDays(r) == _expand_date_range(get(r, "date_range_text"), current_year).days

\* the days of the date ranges a row resolves to
ResolvedDays(r) == IF IsoDays(r) /= <<>> THEN IsoDays(r) ELSE TextDays(r)

\* how many times a list holds a day
Occurrences(days, d) == Cardinality({k \in DOMAIN days : days[k] = d})

RECURSIVE SumOver(_, _, _)
\* the sum of f[i] over the numbers 1..n that are in S
SumOver(f, S, n) ==
    IF n = 0 THEN 0 ELSE SumOver(f, S, n - 1) + (IF n \in S THEN f[n] ELSE 0)

ActiveRows == {i \in DOMAIN rows : ~Inactive(rows[i])}

Returns == pc = "done" /\ ~built.raised

\* C5: the demand count of every day is the number of active records whose
\* resolved date ranges include that day.
C5_CountIsNumberOfRecords ==
    Returns =>
        \A d \in DOMAIN built.demand \cup UNION {Range(ResolvedDays(rows[i])) : i \in ActiveRows} :
            demand_get(built.demand, d) =
                Cardinality({i \in ActiveRows : d \in Range(ResolvedDays(rows[i]))})

\* C6: one record adds at most one to a day: a single active record, whatever
\* its ranges, leaves no day with a count above one.
C6_OncePerRecord ==
    (Returns /\ Cardinality(ActiveRows) = 1) =>
        \A d \in DOMAIN built.demand : built.demand[d] = 1

\* C7: build_calendars never fails on bad date data: no error reaches the
\* caller.
C7_NeverRaises == pc = "done" => ~built.raised

\* a record has structured range data: booked_ranges is a JSON list
HasStructuredData(r) ==
    /\ get(r, "booked_ranges") \notin {None, <<>>}
    /\ json_loads(get(r, "booked_ranges")).kind = "list"

\* C8 as stated: an active record with structured range data contributes the
\* days of its ISO ranges, any other active record those of its free text.
C8_StructuredWheneverPresent ==
    Returns =>
        \A d \in DOMAIN built.demand
                 \cup UNION {Range(IsoDays(rows[i])) \cup Range(TextDays(rows[i])) : i \in ActiveRows} :
            demand_get(built.demand, d) =
                SumOver( [ i \in DOMAIN rows |->
                             IF HasStructuredData(rows[i])
                             THEN Occurrences(IsoDays(rows[i]), d)
                             ELSE Occurrences(TextDays(rows[i]), d) ],
                         ActiveRows, Len(rows) )

\* C8 amended: an active record whose ISO ranges expand to at least one day
\* contributes exactly those days, any other active record exactly the days
\* of its free text; no record contributes from both forms.
C8_IsoWheneverItYieldsDays ==
    Returns =>
        \A d \in DOMAIN built.demand
                 \cup UNION {Range(IsoDays(rows[i])) \cup Range(TextDays(rows[i])) : i \in ActiveRows} :
            demand_get(built.demand, d) =
                SumOver( [ i \in DOMAIN rows |->
                             IF IsoDays(rows[i]) /= <<>>
                             THEN Occurrences(IsoDays(rows[i]), d)
                             ELSE Occurrences(TextDays(rows[i]), d) ],
                         ActiveRows, Len(rows) )

\* C8 witness: a record with ISO days and a free text naming other days,
\* next to a record with an empty ISO list that falls back to its free text.
C8_Witness ==
    /\ Returns
    /\ current_year = 2026
    /\ rows = << Row(1, ISO_MAR_1_2, TEXT_MAR_5_6), Row(1, ISO_EMPTY, TEXT_MAR_1_3) >>
    /\ DOMAIN built.demand = {<<2026, 3, 1>>, <<2026, 3, 2>>, <<2026, 3, 3>>}
    /\ built.demand[<<2026, 3, 1>>] = 2 /\ built.demand[<<2026, 3, 3>>] = 1

\* C9: removing the records whose active flag is false or missing leaves the
\* result of build_calendars unchanged.
C9_InactiveContributeNothing ==
    pc = "done" =>
        built = build_calendars(SelectSeq(rows, LAMBDA r : ~Inactive(r)), current_year)

\* C9 witness: an inactive record and a record without the flag, both with
\* ranges that expand to days, and a result with no demand at all.
C9_Witness ==
    /\ Returns
    /\ rows = << Row(0, ISO_MAR_1_2, TEXT_MAR_1_3),
                 [ booked_ranges |-> ISO_MAR_MAY, date_range_text |-> TEXT_MAR_5_6 ] >>
    /\ IsoDays(rows[1]) /= <<>> /\ IsoDays(rows[2]) /= <<>>
    /\ built.calendars = <<>>

\* the free text of a row is a range whose end day precedes its start day,
\* or whose month abbreviation is not one of Jan..Dec
ReversedOrUnknownMonth(r) ==
    LET m == DateRangeSearch(IF get(r, "date_range_text") = None THEN <<>>
                             ELSE get(r, "date_range_text"))
    IN /\ m.matched
       /\ MONTHS_get(m.mon_abbr) = 0 \/ int12(m.end_day) < int12(m.start_day)

\* C10: when every active record is resolved from such a free text, nothing
\* is contributed and no error is raised.
C10_ReversedOrUnknownIsEmpty ==
    ( /\ pc = "done"
      /\ \A i \in ActiveRows :
            /\ _expand_iso_ranges(get(rows[i], "booked_ranges")) = Returned(<<>>)
            /\ ReversedOrUnknownMonth(rows[i]) )
    => ~built.raised /\ DOMAIN built.demand = {} /\ built.calendars = <<>>

---------------------------------------------------------------------------
(* Claims about the month grids of build_calendars, checked under SpecBuild *)

\* the months counted from year 0
MonthIndex(y, m) == 12 * y + m - 1

HistogramMonths == {MonthIndex(d[1], d[2]) : d \in DOMAIN built.demand}

\* C12: when the histogram is not empty there is exactly one month grid for
\* every calendar month from the month of the earliest histogrammed day to
\* the month of the latest, in ascending consecutive order.
C12_OneGridPerMonth ==
    (Returns /\ DOMAIN built.demand /= {}) =>
        /\ \E lo \in HistogramMonths, hi \in HistogramMonths :
              /\ \A x \in HistogramMonths : lo <= x /\ x <= hi
              /\ Len(built.calendars) = hi - lo + 1
              /\ \A k \in DOMAIN built.calendars :
                    MonthIndex(built.calendars[k].year, built.calendars[k].month) = lo + k - 1
        /\ \A k \in DOMAIN built.calendars : built.calendars[k].month \in 1..12

\* C12 witness: days in March and May 2026 and at the turn of the year give
\* the eleven grids March 2026 .. January 2027, April among them.
C12_Witness ==
    /\ Returns
    /\ rows = << Row(1, ISO_YEAR_END, None), Row(1, ISO_MAR_MAY, None) >>
    /\ Len(built.calendars) = 11
    /\ built.calendars[2].month = 4 /\ built.calendars[2].year = 2026
    /\ built.calendars[11].month = 1 /\ built.calendars[11].year = 2027

\* the highest count of the whole histogram
HighestCount ==
    CHOOSE c \in {built.demand[d] : d \in DOMAIN built.demand} :
        \A d \in DOMAIN built.demand : built.demand[d] <= c

\* C13: every in-month day cell reports the histogram value of its day (0
\* when the day is absent) and the band of that count against the highest
\* count of the whole histogram.
C13_CellCountAndGlobalBand ==
    Returns =>
        \A k \in DOMAIN built.calendars :
            \A w \in DOMAIN built.calendars[k].weeks, c \in 1..7 :
                ~built.calendars[k].weeks[w][c].empty =>
                    /\ built.calendars[k].weeks[w][c].count =
                          demand_get( built.demand,
                                      << built.calendars[k].year, built.calendars[k].month,
                                         built.calendars[k].weeks[w][c].day >> )
                    /\ built.calendars[k].weeks[w][c].band =
                          _band(built.calendars[k].weeks[w][c].count, HighestCount)

\* C13 witness: March 2026 holds a day counted twice, May 2026 only a day
\* counted once; the cell of 2026-05-01, a Friday, has band 2, not 4.
C13_Witness ==
    /\ Returns
    /\ rows = << Row(1, ISO_OVERLAP, None), Row(1, ISO_MAR_MAY, None) >>
    /\ built.demand[<<2026, 3, 2>>] = 2
    /\ built.calendars[3].month = 5
    /\ built.calendars[3].weeks[1][5].day = 1
    /\ built.calendars[3].weeks[1][5].count = 1
    /\ built.calendars[3].weeks[1][5].band = 2

\* the weekday of a day, Monday being 0: 2024-01-01 was a Monday
MondayIndex(d) == (toordinal(d) - toordinal(<<2024, 1, 1>>)) % 7

\* C16: every week has exactly 7 cells, Monday first; the days of the month
\* fill, in ascending order and each once, the cells from the column of the
\* first day's weekday on, every day in the column of its weekday, and
\* every other cell is empty.
C16_MondayFirstWeeks ==
    Returns =>
        \A k \in DOMAIN built.calendars :
            /\ \A w \in DOMAIN built.calendars[k].weeks :
                  DOMAIN built.calendars[k].weeks[w] = 1..7
            /\ Cardinality({ wc \in (DOMAIN built.calendars[k].weeks) \X (1..7) :
                                ~built.calendars[k].weeks[wc[1]][wc[2]].empty })
                  = DaysInMonth(built.calendars[k].year, built.calendars[k].month)
            /\ \A w \in DOMAIN built.calendars[k].weeks, c \in 1..7 :
                  ~built.calendars[k].weeks[w][c].empty =>
                      /\ built.calendars[k].weeks[w][c].day =
                            7 * (w - 1) + c
                            - MondayIndex(<<built.calendars[k].year, built.calendars[k].month, 1>>)
                      /\ built.calendars[k].weeks[w][c].day >= 1
                      /\ MondayIndex(<< built.calendars[k].year, built.calendars[k].month,
                                        built.calendars[k].weeks[w][c].day >>) = c - 1

\* C16 witness: March 2026 starts on a Sunday: six weeks, six empty cells
\* before day 1 and five after day 31, a Tuesday.
C16_Witness ==
    /\ Returns
    /\ rows = << Row(1, ISO_MAR_1_2, None) >>
    /\ Len(built.calendars) = 1
    /\ Len(built.calendars[1].weeks) = 6
    /\ built.calendars[1].weeks[1][6].empty
    /\ built.calendars[1].weeks[1][7].day = 1
    /\ built.calendars[1].weeks[6][2].day = 31
    /\ built.calendars[1].weeks[6][3].empty

\* C17: the result is determined by the records alone: an invocation on the
\* same records at any other time, in whichever year that is, returns what
\* this one returned.
C17_DeterminedByRecordsAlone ==
    pc = "done" =>
        \A y \in Years :
            /\ build_calendars(rows, y).raised = built.raised
            /\ build_calendars(rows, y).calendars = built.calendars

\* no active record has a range that expands to a day: the input is empty,
\* or every record is inactive, or every range is empty or cannot be parsed
NoDayContributed == \A i \in ActiveRows : ResolvedDays(rows[i]) = <<>>

\* C19: build_calendars returns an empty list of month grids, raising no
\* error, exactly when no active record contributes any day.
C19_EmptyExactlyWhenNoDays ==
    pc = "done" =>
        ((~built.raised /\ built.calendars = <<>>) <=> NoDayContributed)

---------------------------------------------------------------------------
(* Invocations of the expansion helpers on their own *)

\* str(n) of a day number below 100
str(n) == IF n < 10 THEN <<DigitChar(n)>> ELSE <<DigitChar(n \div 10), DigitChar(n % 10)>>

\* the date range of a search card: month abbreviation, start day, a dash,
\* end day
CardText(abbr, a, sep, b) == abbr \o <<" ">> \o str(a) \o sep \o str(b)

CardMonths == { <<"F", "e", "b">>, <<"M", "a", "r">>, <<"J", "u", "n">>,
                <<"D", "e", "c">>, <<"X", "y", "z">> }
CardDays == {1, 9, 10, 28, 29, 30, 31}
CardDashes == { <<EN_DASH>>, <<"-">>, <<" ", "-", " ">> }

ExpandTexts ==
    { CardText(abbr, a, sep, b) :
        abbr \in CardMonths, a \in CardDays, sep \in CardDashes, b \in CardDays }
    \cup { TEXT_SOON, <<>> }

\* the days the items of a booked_ranges list are made of: the days around
\* a year end and around a leap day
ItemDates ==
    { <<2027, 12, 30>>, <<2027, 12, 31>>, <<2028, 1, 1>>, <<2028, 2, 27>>,
      <<2028, 2, 28>>, <<2028, 3, 1>>, <<2028, 3, 2>> }

\* one item of a booked_ranges list, as text
RangeItem(S, E) == isoformat(S) \o TO_SEP \o isoformat(E)

ExpandItemTexts ==
    { isoformat(S) : S \in ItemDates }
    \cup { RangeItem(S, E) : S \in ItemDates, E \in ItemDates }
    \cup { ISO_NOT_JSON }

ExpandRaws ==
    { json_dumps(items) : items \in UNION { [1..n -> ExpandItemTexts] : n \in 0..2 } }
    \cup { ISO_NOT_JSON, ISO_NULL, ISO_FEB_30 }

InitExpand ==
    /\ \/ /\ pc = "_expand_date_range"
          /\ arg_text \in ExpandTexts
          /\ current_year \in Years
          /\ arg_raw = None
       \/ /\ pc = "_expand_iso_ranges"
          /\ arg_raw \in ExpandRaws
          /\ current_year = 0
          /\ arg_text = None
    /\ expanded = Returned(<<>>)
    /\ dates = <<>>
    /\ ranges = <<>>
    /\ rows = <<>>
    /\ built = <<>>
    /\ NoBand /\ inv = <<>> /\ NoPipeline

ExpandDateRange ==
    /\ pc = "_expand_date_range"
    /\ expanded' = _expand_date_range(arg_text, current_year)
    /\ pc' = "date_range_expanded"
    /\ UNCHANGED <<arg_text, arg_raw, compressVars, rows, current_year, built, bandVars, inv, pipelineVars>>

ExpandIsoRanges ==
    /\ pc = "_expand_iso_ranges"
    /\ expanded' = _expand_iso_ranges(arg_raw)
    /\ pc' = "iso_ranges_expanded"
    /\ UNCHANGED <<arg_text, arg_raw, compressVars, rows, current_year, built, bandVars, inv, pipelineVars>>

NextExpand == ExpandDateRange \/ ExpandIsoRanges

SpecExpand == InitExpand /\ [][NextExpand]_vars

---------------------------------------------------------------------------
(* Claims about the expansion helpers, checked under SpecExpand *)

\* days is the list of the consecutive days from S to E, each once
IsInclusiveSpan(days, S, E) ==
    /\ Len(days) = toordinal(E) - toordinal(S) + 1
    /\ \A k \in DOMAIN days :
          /\ days[k] = date(days[k][1], days[k][2], days[k][3])
          /\ toordinal(days[k]) = toordinal(S) + k - 1

\* C11: a free-text range "Mon a-b" with a <= b, both days of that month,
\* expands to exactly the days a..b of the month in the reference year; an
\* ISO item "S to E" with S <= E expands to exactly the days S..E, and a
\* single ISO date to exactly that day.
C11_FullInclusiveExpansion ==
    /\ pc = "date_range_expanded" =>
          \A m \in 1..12, a \in CardDays, b \in CardDays, sep \in CardDashes :
              ( /\ arg_text = CardText(MONTH_ABBRS[m], a, sep, b)
                /\ a <= b
                /\ b <= DaysInMonth(current_year, m) )
              => expanded = Returned([k \in 1..(b - a + 1) |-> <<current_year, m, a + k - 1>>])
    /\ pc = "iso_ranges_expanded" =>
          /\ \A S \in ItemDates, E \in ItemDates :
                (arg_raw = json_dumps(<<RangeItem(S, E)>>) /\ DateLeq(S, E))
                => ~expanded.raised /\ IsInclusiveSpan(expanded.days, S, E)
          /\ \A S \in ItemDates :
                arg_raw = json_dumps(<<isoformat(S)>>) => expanded = Returned(<<S>>)

\* C11 witness: "Feb 28-29" with an en dash expanded in the leap year 2028.
C11_Witness ==
    /\ pc = "date_range_expanded"
    /\ current_year = 2028
    /\ arg_text = CardText(<<"F", "e", "b">>, 28, <<EN_DASH>>, 29)
    /\ expanded.days = << <<2028, 2, 28>>, <<2028, 2, 29>> >>

---------------------------------------------------------------------------
(* Invocations of _band on its own *)

MaxDemand == 12

InitBand ==
    /\ pc = "_band"
    /\ arg_count \in 0..MaxDemand
    /\ arg_max_count \in 0..MaxDemand
    /\ band = 0
    /\ dates = <<>>
    /\ ranges = <<>>
    /\ rows = <<>>
    /\ current_year = 0
    /\ built = <<>>
    /\ NoExpansion /\ inv = <<>> /\ NoPipeline

Band ==
    /\ pc = "_band"
    /\ band' = _band(arg_count, arg_max_count)
    /\ pc' = "band_returned"
    /\ UNCHANGED <<arg_count, arg_max_count, compressVars, buildVars, expandVars, inv, pipelineVars>>

NextBand == Band

SpecBand == InitBand /\ [][NextBand]_vars

---------------------------------------------------------------------------
(* Claims about _band, checked under SpecBand *)

\* C14: the band is 0 when count is 0 or max_count is 0; otherwise, with
\* ratio = count / max_count, it is 1 when ratio <= 1/4, 2 when
\* 1/4 < ratio <= 1/2, 3 when 1/2 < ratio <= 3/4 and 4 when ratio > 3/4;
\* it is always one of 0..4.
C14_BandThresholds ==
    pc = "band_returned" =>
        /\ band \in 0..4
        /\ (arg_count = 0 \/ arg_max_count = 0) => band = 0
        /\ (arg_count > 0 /\ arg_max_count > 0) =>
              /\ band = 1 <=> 4 * arg_count <= arg_max_count
              /\ band = 2 <=> (arg_max_count < 4 * arg_count /\ 2 * arg_count <= arg_max_count)
              /\ band = 3 <=> (arg_max_count < 2 * arg_count /\ 4 * arg_count <= 3 * arg_max_count)
              /\ band = 4 <=> 3 * arg_max_count < 4 * arg_count

\* C14 witness: 3 of 12 is exactly a quarter and falls in band 1.
C14_Witness ==
    pc = "band_returned" /\ arg_count = 3 /\ arg_max_count = 12 /\ band = 1

\* C15: for a fixed max_count > 0 the band does not decrease as count grows
\* over 0..max_count; it is 0 at count = 0 and 4 at count = max_count.
C15_BandMonotonic ==
    (pc = "band_returned" /\ arg_max_count > 0 /\ arg_count <= arg_max_count) =>
        /\ \A c1 \in 0..arg_count : _band(c1, arg_max_count) <= band
        /\ \A c2 \in arg_count..arg_max_count : band <= _band(c2, arg_max_count)
        /\ arg_count = 0 => band = 0
        /\ arg_count = arg_max_count => band = 4

\* C15 witness: 7 of 12 falls in band 3, above the band 2 of 6 of 12.
C15_Witness ==
    /\ pc = "band_returned" /\ arg_count = 7 /\ arg_max_count = 12 /\ band = 3
    /\ _band(6, arg_max_count) = 2

---------------------------------------------------------------------------
(* Invocations running side by side: two of build_calendars and one of     *)
(* compress_ranges, each with its own locals, interleaved statement by     *)
(* statement.  rows[k] and dates are the caller's arguments; the year does  *)
(* not change while the invocations run.                                   *)

\* a call of build_calendars(rs): demand = {} and the loop about to start
BuildFrame(rs) ==
    [ fn |-> "build_calendars", rows |-> rs, i |-> 1,
      t |-> [ raised |-> FALSE, demand |-> << >> ],
      pc |-> "rows", result |-> <<>> ]

\* a call of compress_ranges(ds)
CompressFrame(ds) ==
    [ fn |-> "compress_ranges", dates |-> ds, dts |-> <<>>, pc |-> "sort", result |-> <<>> ]

\* a module-level histogram: every invocation works on that of the first
demand_of_Shared(frames, k) == frames[1].t

\* the histogram an invocation works on: its own local demand
demand_of(frames, k) == frames[k].t

SideBySideRows ==
    { <<>>,
      << Row(1, ISO_MAR_1_2, None), Row(1, None, TEXT_MAR_1_3) >>,
      << Row(1, ISO_OVERLAP, None) >>,
      << Row(0, ISO_MAR_1_2, TEXT_MAR_1_3), Row(1, None, TEXT_FEB_28_29) >>,
      << Row(1, ISO_MAR_MAY, None), Row(1, ISO_MAR_1_2, TEXT_MAR_5_6) >> }

SideBySideDates ==
    { <<>>,
      << isoformat(<<2026, 3, 5>>), isoformat(<<2026, 3, 1>>), isoformat(<<2026, 3, 2>>) >>,
      << isoformat(<<2026, 3, 1>>), isoformat(<<2026, 3, 1>>) >> }

InitSideBySide ==
    /\ pc = "running"
    /\ rows \in [1..2 -> SideBySideRows]
    /\ dates \in SideBySideDates
    /\ current_year \in Years
    /\ inv = << BuildFrame(rows[1]), BuildFrame(rows[2]), CompressFrame(dates) >>
    /\ ranges = <<>>
    /\ built = <<>>
    /\ NoExpansion /\ NoBand /\ NoPipeline

\* one pass of the loop over the rows
BuildRow(k) ==
    /\ inv[k].fn = "build_calendars" /\ inv[k].pc = "rows"
    /\ inv[k].i <= Len(inv[k].rows) /\ ~demand_of(inv, k).raised
    /\ inv' = [ inv EXCEPT
                  ![k].t = TallyRow( demand_of(inv, k), inv[k].rows[inv[k].i],
                                     IF Active(inv[k].rows[inv[k].i])
                                     THEN RowDays(inv[k].rows[inv[k].i], current_year)
                                     ELSE Returned(<<>>) ),
                  ![k].i = inv[k].i + 1 ]
    /\ UNCHANGED <<pc, compressVars, buildVars, expandVars, bandVars, pipelineVars>>

\* the loop is over, or an exception ended it: the grids are built and
\* returned, or the exception leaves the function
BuildReturn(k) ==
    /\ inv[k].fn = "build_calendars" /\ inv[k].pc = "rows"
    /\ inv[k].i > Len(inv[k].rows) \/ demand_of(inv, k).raised
    /\ inv' = [ inv EXCEPT ![k].result = Calendars(demand_of(inv, k)), ![k].pc = "done" ]
    /\ UNCHANGED <<pc, compressVars, buildVars, expandVars, bandVars, pipelineVars>>

\* if not dates: return []; else dts = the sorted dates, parsed
CompressSort(k) ==
    /\ inv[k].fn = "compress_ranges" /\ inv[k].pc = "sort"
    /\ inv' = IF inv[k].dates = <<>>
               THEN [ inv EXCEPT ![k].pc = "done" ]
               ELSE [ inv EXCEPT
                        ![k].dts = [ x \in 1..Len(inv[k].dates) |->
                                       fromisoformat(sorted(inv[k].dates)[x]) ],
                        ![k].pc = "scan" ]
    /\ UNCHANGED <<pc, compressVars, buildVars, expandVars, bandVars, pipelineVars>>

\* the scan over dts and the rendering of the runs
CompressReturn(k) ==
    /\ inv[k].fn = "compress_ranges" /\ inv[k].pc = "scan"
    /\ inv' = [ inv EXCEPT
                  ![k].result =
                      [ x \in 1..Len(ScanRuns(inv[k].dts, 2, inv[k].dts[1], inv[k].dts[1], <<>>)) |->
                          FormatRun(
                            ScanRuns(inv[k].dts, 2, inv[k].dts[1], inv[k].dts[1], <<>>)[x][1],
                            ScanRuns(inv[k].dts, 2, inv[k].dts[1], inv[k].dts[1], <<>>)[x][2]) ],
                  ![k].pc = "done" ]
    /\ UNCHANGED <<pc, compressVars, buildVars, expandVars, bandVars, pipelineVars>>

NextSideBySide ==
    \E k \in DOMAIN inv : BuildRow(k) \/ BuildReturn(k) \/ CompressSort(k) \/ CompressReturn(k)

SpecSideBySide == InitSideBySide /\ [][NextSideBySide]_vars

---------------------------------------------------------------------------
(* Claims about invocations side by side, checked under SpecSideBySide *)

\* C18: under any interleaving every invocation returns what it returns
\* when run alone, no demand counted by one invocation shows in another,
\* and the arguments of every invocation stay as the caller passed them.
C18_InvocationsIndependent ==
    \A k \in DOMAIN inv :
        /\ inv[k].fn = "build_calendars" =>
              /\ inv[k].rows = rows[k]
              /\ inv[k].pc = "done" => inv[k].result = build_calendars(rows[k], current_year)
              /\ inv[k].pc = "rows" =>
                    inv[k].t = Tally( SubSeq(rows[k], 1, inv[k].i - 1), current_year,
                                      [ raised |-> FALSE, demand |-> << >> ] )
        /\ inv[k].fn = "compress_ranges" =>
              /\ inv[k].dates = dates
              /\ inv[k].pc = "done" => inv[k].result = compress_ranges(dates)

\* C18 witness: the second invocation ran from start to end on the same two
\* rows while the first was between its two rows; it counted 2026-03-01
\* twice, not three times.
C18_Witness ==
    /\ pc = "running"
    /\ rows[1] = << Row(1, ISO_MAR_1_2, None), Row(1, None, TEXT_MAR_1_3) >>
    /\ rows[2] = rows[1]
    /\ inv[1].pc = "rows" /\ inv[1].i = 2
    /\ inv[2].pc = "done"
    /\ inv[2].result.demand[<<2026, 3, 1>>] = 2
    /\ inv[3].pc = "done"

---------------------------------------------------------------------------
(* extract_listing: the forward calendar of one listing                    *)
(* (scripts/extract_airbnb_forward_calendar.py)                            *)

CALENDAR_DAY == <<"c", "a", "l", "e", "n", "d", "a", "r", "-", "d", "a", "y", "-">>
TRUE_TEXT == <<"t", "r", "u", "e">>
FALSE_TEXT == <<"f", "a", "l", "s", "e">>
CALENDAR_BUTTON_NOT_FOUND == <<"calendar button not found">>

\* DAY_RE.match(testid or ""): group 1 (MM/DD/YYYY), or None
DayReMatch(testid) ==
    LET s == IF testid = None THEN <<>> ELSE testid
    IN IF /\ Len(s) >= 23
          /\ SubSeq(s, 1, 13) = CALENDAR_DAY
          /\ \A i \in {14, 15, 17, 18, 20, 21, 22, 23} : IsDigit(s[i])
          /\ s[16] = "/" /\ s[19] = "/"
       THEN SubSeq(s, 14, 23)
       ELSE None

\* dt.datetime.strptime(g, "%m/%d/%Y").date()
strptime_date(g) ==
    date(int4(SubSeq(g, 7, 10)), int2(SubSeq(g, 1, 2)), int2(SubSeq(g, 4, 5)))

RECURSIVE dict_setdefault(_, _, _)
\* the value of the first node kept instead of the last one
dict_setdefault(d, k, v) ==
    IF d = <<>> THEN << <<k, v>> >>
    ELSE IF Head(d)[1] = k THEN d
    ELSE <<Head(d)>> \o dict_setdefault(Tail(d), k, v)

RECURSIVE dict_set(_, _, _)
\* d[k] = v on a dict kept as its items in insertion order
dict_set(d, k, v) ==
    IF d = <<>> THEN << <<k, v>> >>
    ELSE IF Head(d)[1] = k THEN << <<k, v>> >> \o Tail(d)
    ELSE <<Head(d)>> \o dict_set(Tail(d), k, v)

\* d[k]
dict_get(d, k) == d[CHOOSE i \in DOMAIN d : d[i][1] = k][2]

\* list(d): the keys in insertion order
dict_keys(d) == [i \in DOMAIN d |-> d[i][1]]

\* one pass of the loop body after strptime: the start_date filter and the
\* assignment by_date[date_iso] = blocked == "true"
KeepDay(by_date, date_iso, blocked, start) ==
    IF DateLess(fromisoformat(date_iso), start) THEN by_date
    ELSE dict_set(by_date, date_iso, blocked = TRUE_TEXT)

RECURSIVE ScanDays(_, _, _, _)
\* for testid, blocked in raw_days: ...  ; strptime may raise ValueError
ScanDays(nodes, i, start, by_date) ==
    IF i > Len(nodes) THEN [raised |-> FALSE, by_date |-> by_date]
    ELSE IF DayReMatch(nodes[i][1]) = None THEN ScanDays(nodes, i + 1, start, by_date)
    ELSE IF strptime_date(DayReMatch(nodes[i][1])) = ValueError
         THEN [raised |-> TRUE, by_date |-> <<>>]
    ELSE ScanDays(nodes, i + 1, start,
                  KeepDay(by_date, isoformat(strptime_date(DayReMatch(nodes[i][1]))),
                          nodes[i][2], start))

RECURSIVE Filter(_, _, _)
\* [d for d in dates if by_date[d] == flag]
Filter(ds, by_date, flag) ==
    IF ds = <<>> THEN <<>>
    ELSE (IF dict_get(by_date, Head(ds)) = flag THEN <<Head(ds)>> ELSE <<>>)
         \o Filter(Tail(ds), by_date, flag)

\* round(n / total * 100, 1) if total else None, in tenths of a percent
\* (ties to the even tenth, on the exact quotient)
Pct(n, total) ==
    IF total = 0 THEN None
    ELSE LET q == (1000 * n) \div total
             r == (1000 * n) % total
         IN IF 2 * r < total THEN q
            ELSE IF 2 * r > total THEN q + 1
            ELSE IF q % 2 = 0 THEN q ELSE q + 1

\* the dict returned once by_date is complete
ListingStats(by_date, ds, booked, available) ==
    [ forward_days |-> Len(ds),
      days_booked |-> Len(booked),
      days_not_booked |-> Len(available),
      vacancy_pct |-> Pct(Len(available), Len(ds)),
      occupancy_pct |-> Pct(Len(booked), Len(ds)),
      booked_ranges |-> compress_ranges(booked),
      available_ranges |-> compress_ranges(available) ]

ListingOf(by_date, ds) ==
    ListingStats(by_date, ds, Filter(ds, by_date, TRUE), Filter(ds, by_date, FALSE))

\* extract_listing(page, url, start_date, timeout_ms), given whether the
\* calendar could be opened and the nodes the page shows
extract_listing(opened, nodes, start) ==
    IF ~opened
    THEN [raised |-> FALSE, value |-> [error |-> CALENDAR_BUTTON_NOT_FOUND]]
    ELSE LET s == ScanDays(nodes, 1, start, <<>>)
         IN IF s.raised THEN [raised |-> TRUE, value |-> None]
            ELSE [raised |-> FALSE,
                  value |-> ListingOf(s.by_date, sorted(dict_keys(s.by_date)))]

(* Invocations of extract_listing *)

MaxNodes == 3

\* data-testid of the node of a day
TestId(d) ==
    CALENDAR_DAY \o <<DigitChar(d[2] \div 10), DigitChar(d[2] % 10), "/",
                      DigitChar(d[3] \div 10), DigitChar(d[3] % 10), "/",
                      DigitChar(d[1] \div 1000), DigitChar((d[1] \div 100) % 10),
                      DigitChar((d[1] \div 10) % 10), DigitChar(d[1] % 10)>>

START_DATE == <<2026, 11, 1>>
NodeDays == { <<2026, 10, 31>>, <<2026, 11, 1>>, <<2026, 11, 2>> }

\* nodes of days before and from the start date, blocked or not, a day two
\* days later, a node without the attribute, a node that is no day, and a
\* node whose text names no day of the calendar
CalendarNodes ==
    { <<TestId(d), b>> : d \in NodeDays \ {<<2026, 10, 31>>}, b \in {TRUE_TEXT, FALSE_TEXT} }
    \cup { <<TestId(<<2026, 10, 31>>), TRUE_TEXT>>,
           <<TestId(<<2026, 11, 4>>), TRUE_TEXT>>,
           <<TestId(<<2026, 11, 2>>), None>>,
           <<CALENDAR_DAY \o <<"x">>, FALSE_TEXT>>,
           <<TestId(<<2026, 2, 30>>), TRUE_TEXT>> }

InitExtract ==
    /\ pc = "extract_listing"
    /\ raw_days \in UNION { [1..n -> CalendarNodes] : n \in 0..MaxNodes }
    /\ start_date = START_DATE
    /\ listing = None
    /\ NoCalls /\ NoScroll /\ NoDb /\ NoMain /\ NoGroups /\ NoCards

ExtractListing ==
    /\ pc = "extract_listing"
    /\ \E opened \in BOOLEAN :
          /\ pc' = IF extract_listing(opened, raw_days, start_date).raised
                   THEN "extract_raised" ELSE "extract_returned"
          /\ listing' = extract_listing(opened, raw_days, start_date).value
    /\ UNCHANGED <<raw_days, start_date, compressVars, buildVars, expandVars, bandVars,
                   inv, scrollVars, dbVars, mainVars, groupVars, cardVars>>

NextExtract == ExtractListing

SpecExtract == InitExtract /\ [][NextExtract]_vars

\* the day a node stands for, read off the inputs
AllNodeDays == NodeDays \cup {<<2026, 11, 4>>}
IsDayNode(n) == \E d \in AllNodeDays : n[1] = TestId(d)
DayOfNode(n) == CHOOSE d \in AllNodeDays : n[1] = TestId(d)
KeptDays == { DayOfNode(raw_days[i]) : i \in { j \in DOMAIN raw_days :
                  IsDayNode(raw_days[j]) /\ ~DateLess(DayOfNode(raw_days[j]), start_date) } }
LastNodeOf(d) ==
    CHOOSE i \in DOMAIN raw_days :
        /\ IsDayNode(raw_days[i]) /\ DayOfNode(raw_days[i]) = d
        /\ \A j \in DOMAIN raw_days :
              (IsDayNode(raw_days[j]) /\ DayOfNode(raw_days[j]) = d) => j <= i
BlockedDays == { d \in KeptDays : raw_days[LastNodeOf(d)][2] = TRUE_TEXT }
TimesCovered(rs, d) == Cardinality({ i \in DOMAIN rs : d \in CoveredDays(rs[i]) })
AllCovered(rs) == UNION { CoveredDays(rs[i]) : i \in DOMAIN rs }
CalendarReturned == pc = "extract_returned" /\ "forward_days" \in DOMAIN listing

\* C21: whenever extract_listing returns calendar statistics, the days it
\* kept are the days of the nodes on or after the start date; forward_days
\* counts them and equals days_booked + days_not_booked; booked_ranges
\* covers exactly the kept days whose last node is blocked, available_ranges
\* exactly the other kept days, every kept day is covered by exactly one
\* range of the two lists, and no day before the start date is covered.
C21_KeptDaysPartitioned ==
    CalendarReturned =>
        /\ listing.forward_days = Cardinality(KeptDays)
        /\ listing.forward_days = listing.days_booked + listing.days_not_booked
        /\ listing.days_booked = Cardinality(BlockedDays)
        /\ AllCovered(listing.booked_ranges) = BlockedDays
        /\ AllCovered(listing.available_ranges) = KeptDays \ BlockedDays
        /\ \A d \in KeptDays :
              TimesCovered(listing.booked_ranges, d)
                + TimesCovered(listing.available_ranges, d) = 1
        /\ \A d \in AllCovered(listing.booked_ranges) \cup AllCovered(listing.available_ranges) :
              ~DateLess(d, start_date)

\* a day shown twice with different flags and a day before the start date
C21_Witness ==
    /\ CalendarReturned
    /\ \E i, j \in DOMAIN raw_days :
          /\ i < j /\ raw_days[i][1] = raw_days[j][1]
          /\ raw_days[i][2] = TRUE_TEXT /\ raw_days[j][2] = FALSE_TEXT
          /\ IsDayNode(raw_days[i]) /\ DayOfNode(raw_days[i]) \in KeptDays
    /\ \E i \in DOMAIN raw_days :
          IsDayNode(raw_days[i]) /\ DateLess(DayOfNode(raw_days[i]), start_date)
    /\ listing.forward_days = 1
    /\ listing.available_ranges /= <<>>

---------------------------------------------------------------------------
(* _extract_from_search_page: the scroll loop                              *)
(* (scripts/extract_airbnb_search_results.py)                              *)

\* stable_scrolls after the comparison of one iteration
StableScrollsAfter(current_ids, seen, stable) ==
    IF Cardinality(current_ids) = Cardinality(seen) THEN stable + 1 ELSE 0

\* seen_listing_ids after the comparison of one iteration
SeenAfter(current_ids, seen) ==
    IF Cardinality(current_ids) = Cardinality(seen) THEN seen ELSE current_ids

MaxScrolls == 3
MaxStable == 2

\* the listing ids the anchors of the page may carry
ScrollIds == {"101", "102", "103"}

InitScroll ==
    /\ pc = "scrolling"
    /\ max_scrolls \in 0..MaxScrolls
    /\ stop_after_stable_scrolls \in 1..MaxStable
    /\ seen_listing_ids = {}
    /\ stable_scrolls = 0
    /\ scroll_log = <<>>
    /\ NoCalls /\ NoExtract /\ NoDb /\ NoMain /\ NoGroups /\ NoCards

\* one iteration of for _ in range(args.max_scrolls): the wheel, the ids
\* of the anchors now on the page, the comparison and the break
ScrollOnce ==
    /\ pc = "scrolling"
    /\ Len(scroll_log) < max_scrolls
    /\ \E current_ids \in SUBSET ScrollIds :
          /\ stable_scrolls' = StableScrollsAfter(current_ids, seen_listing_ids, stable_scrolls)
          /\ seen_listing_ids' = SeenAfter(current_ids, seen_listing_ids)
          /\ scroll_log' = Append(scroll_log, current_ids)
          /\ pc' = IF StableScrollsAfter(current_ids, seen_listing_ids, stable_scrolls)
                        >= stop_after_stable_scrolls
                   THEN "scroll_break" ELSE "scrolling"
    /\ UNCHANGED <<max_scrolls, stop_after_stable_scrolls, compressVars, buildVars,
                   expandVars, bandVars, inv, extractVars, dbVars, mainVars,
                   groupVars, cardVars>>

\* range(args.max_scrolls) is used up
ScrollExhausted ==
    /\ pc = "scrolling"
    /\ Len(scroll_log) = max_scrolls
    /\ pc' = "scroll_exhausted"
    /\ UNCHANGED <<scrollVars, compressVars, buildVars, expandVars, bandVars, inv,
                   extractVars, dbVars, mainVars, groupVars, cardVars>>

NextScroll == ScrollOnce \/ ScrollExhausted

SpecScroll == InitScroll /\ [][NextScroll]_vars

\* scroll i showed no listing id that an earlier scroll had not shown
NoNewIds(i) == scroll_log[i] \subseteq UNION { scroll_log[j] : j \in 1..(i - 1) }
\* the latest stop_after_stable_scrolls scrolls found nothing new
StableTail ==
    /\ Len(scroll_log) >= stop_after_stable_scrolls
    /\ \A i \in (Len(scroll_log) - stop_after_stable_scrolls + 1)..Len(scroll_log) :
          NoNewIds(i)

\* C22: the scroll loop performs at most max_scrolls iterations; it has
\* stopped early exactly when the latest stop_after_stable_scrolls
\* consecutive scrolls found no new listing id, so it never stops early
\* after a scroll that revealed an unseen id and never goes on once that
\* many scrolls found nothing new.
C22_StopsExactlyWhenStable ==
    /\ Len(scroll_log) <= max_scrolls
    /\ pc = "scroll_break" => StableTail
    /\ pc = "scrolling" => ~StableTail

---------------------------------------------------------------------------
(* persist_results_to_db: the listings table                               *)
(* (scripts/extract_airbnb_search_results.py)                              *)

\* a row of listings as far as source and activity go
ListingRow(source_url) == [source_url |-> source_url, active |-> 1]

\* UPDATE listings SET active = 0 WHERE source_url = ?
DeactivateSource(tbl, source_url) ==
    [u \in DOMAIN tbl |->
        IF tbl[u].source_url = source_url THEN [tbl[u] EXCEPT !.active = 0] ELSE tbl[u]]

\* the conflict clause without source_url=excluded.source_url: a row that
\* exists keeps the source it was first seen under
UpsertListing_KeepSource(tbl, listing_url, source_url) ==
    [u \in DOMAIN tbl \cup {listing_url} |->
        IF u /= listing_url THEN tbl[u]
        ELSE IF u \in DOMAIN tbl THEN [tbl[u] EXCEPT !.active = 1]
        ELSE ListingRow(source_url)]

\* INSERT INTO listings ... ON CONFLICT(listing_url) DO UPDATE SET
\*   source_url=excluded.source_url, ..., active=1
UpsertListing(tbl, listing_url, source_url) ==
    [u \in DOMAIN tbl \cup {listing_url} |->
        IF u = listing_url THEN ListingRow(source_url) ELSE tbl[u]]

RECURSIVE UpsertResults(_, _, _)
\* for row in source.get("results", []): ...
UpsertResults(tbl, res, source_url) ==
    IF res = <<>> THEN tbl
    ELSE UpsertResults(UpsertListing(tbl, Head(res).listing_url, source_url),
                       Tail(res), source_url)

\* one pass of for source in payload.get("sources", [])
PersistSource(tbl, source) ==
    IF source.source_url = "" THEN tbl
    ELSE UpsertResults(DeactivateSource(tbl, source.source_url),
                       source.results, source.source_url)

RECURSIVE PersistSources(_, _)
PersistSources(tbl, sources) ==
    IF sources = <<>> THEN tbl
    ELSE PersistSources(PersistSource(tbl, Head(sources)), Tail(sources))

\* persist_results_to_db(payload, db_path) on the table as it is
persist_results_to_db(tbl, p) == PersistSources(tbl, p.sources)

(* Runs of the search extractor, each ending in persist_results_to_db *)

MaxRuns == 3

SOURCE_A == "https://www.airbnb.com/s/Paris/homes"
SOURCE_B == "https://www.airbnb.com/s/Rome/homes"
LISTING_URLS == <<"https://www.airbnb.com/rooms/101", "https://www.airbnb.com/rooms/102">>

\* results of a source: the listings found, in ascending order of id
ResultsOf(S) ==
    LET pick(i) == IF LISTING_URLS[i] \in S THEN <<[listing_url |-> LISTING_URLS[i]]>> ELSE <<>>
    IN pick(1) \o pick(2)

SourceOf(url, S) == [source_url |-> url, results |-> ResultsOf(S)]

\* the payloads main builds from one or two search URLs (_load_urls
\* removes repeated URLs, so the sources of a payload differ)
Payloads ==
    { [sources |-> <<SourceOf(u, S)>>] :
          u \in {SOURCE_A, SOURCE_B}, S \in SUBSET Range(LISTING_URLS) }
    \cup { [sources |-> <<SourceOf(SOURCE_A, S), SourceOf(SOURCE_B, T)>>] :
          S \in SUBSET Range(LISTING_URLS), T \in SUBSET Range(LISTING_URLS) }

InitPersist ==
    /\ pc = "persist"
    /\ listings = <<>>
    /\ payload = <<>>
    /\ NoCalls /\ NoExtract /\ NoScroll /\ NoMain /\ NoGroups /\ NoCards

PersistResults ==
    /\ pc = "persist"
    /\ Len(payload) < MaxRuns
    /\ \E p \in Payloads :
          /\ listings' = persist_results_to_db(listings, p)
          /\ payload' = Append(payload, p)
    /\ UNCHANGED <<pc, compressVars, buildVars, expandVars, bandVars, inv,
                   extractVars, scrollVars, mainVars, groupVars, cardVars>>

NextPersist == PersistResults

SpecPersist == InitPersist /\ [][NextPersist]_vars

LatestPayload == payload[Len(payload)]
ResultUrls(source) == { source.results[i].listing_url : i \in DOMAIN source.results }
EverPersisted ==
    UNION { UNION { ResultUrls(payload[n].sources[k]) : k \in DOMAIN payload[n].sources } :
            n \in DOMAIN payload }

\* C23: after any sequence of persist_results_to_db calls, every listing
\* ever written is still a row of listings (no row is deleted), and for
\* every source S of the most recent payload a row whose source_url is S
\* is active exactly when its listing_url is among S's results in that
\* payload; so a source whose latest results are empty has only inactive
\* rows and a listing found again is active again.
C23_ActiveIffInLatestResults ==
    /\ EverPersisted \subseteq DOMAIN listings
    /\ payload /= <<>> =>
          \A k \in DOMAIN LatestPayload.sources :
              \A u \in DOMAIN listings :
                  listings[u].source_url = LatestPayload.sources[k].source_url =>
                      (listings[u].active = 1 <=> u \in ResultUrls(LatestPayload.sources[k]))

\* third run: a listing that the second run had deactivated is found again
\* and active, another row of the same source is inactive, and a source of
\* the latest payload has no results
C23_Witness ==
    /\ Len(payload) = 3
    /\ LISTING_URLS[1] \in ResultUrls(payload[1].sources[1])
    /\ payload[1].sources[1].source_url = SOURCE_A
    /\ payload[2].sources[1].source_url = SOURCE_A
    /\ LISTING_URLS[1] \notin ResultUrls(payload[2].sources[1])
    /\ LISTING_URLS[2] \in ResultUrls(payload[2].sources[1])
    /\ payload[3].sources = <<SourceOf(SOURCE_A, {LISTING_URLS[1]}), SourceOf(SOURCE_B, {})>>
    /\ listings[LISTING_URLS[1]] = [source_url |-> SOURCE_A, active |-> 1]
    /\ listings[LISTING_URLS[2]] = [source_url |-> SOURCE_A, active |-> 0]

---------------------------------------------------------------------------
(* main of the three extractors: the loop over the input URLs              *)
(* (scripts/extract_airbnb_forward_calendar.py,                            *)
(*  scripts/extract_airbnb_ratings_and_capacity.py,                        *)
(*  scripts/extract_airbnb_search_results.py)                              *)

Least(S) == CHOOSE x \in S : \A y \in S : x <= y

\* the first index from i on of a character of C, Len(s) + 1 if there is none
IndexOfAny(s, i, C) == Least({ j \in i..Len(s) : s[j] \in C } \cup {Len(s) + 1})

ROOMS == <<"/", "r", "o", "o", "m", "s", "/">>
UNKNOWN == <<"u", "n", "k", "n", "o", "w", "n">>

RECURSIVE DigitsEnd(_, _)
\* the last index of the run of digits that starts at i
DigitsEnd(s, i) == IF i < Len(s) /\ IsDigit(s[i + 1]) THEN DigitsEnd(s, i + 1) ELSE i

RoomIdAt(s, i) ==
    i + 7 <= Len(s) /\ SubSeq(s, i, i + 6) = ROOMS /\ IsDigit(s[i + 7])

\* ROOM_ID_RE.search(s): group 1 of the leftmost match, or None
RoomIdSearch(s) ==
    IF \E i \in 1..Len(s) : RoomIdAt(s, i)
    THEN SubSeq(s, Least({ i \in 1..Len(s) : RoomIdAt(s, i) }) + 7,
                DigitsEnd(s, Least({ i \in 1..Len(s) : RoomIdAt(s, i) }) + 7))
    ELSE None

room_id(url) == IF RoomIdSearch(url) = None THEN UNKNOWN ELSE RoomIdSearch(url)

\* urllib.parse.urlsplit: scheme, netloc and path
IsSchemeChar(c) == IsLower(c) \/ IsUpper(c) \/ IsDigit(c) \/ c \in {"+", "-", "."}
HasScheme(url) ==
    /\ IndexOfAny(url, 1, {":"}) \in 2..Len(url)
    /\ IsLower(url[1]) \/ IsUpper(url[1])
    /\ \A j \in 1..(IndexOfAny(url, 1, {":"}) - 1) : IsSchemeChar(url[j])
AfterScheme(url) ==
    IF HasScheme(url) THEN SubSeq(url, IndexOfAny(url, 1, {":"}) + 1, Len(url)) ELSE url
HasNetloc(r) == Len(r) >= 2 /\ r[1] = "/" /\ r[2] = "/"
NetlocOf(r) == IF HasNetloc(r) THEN SubSeq(r, 3, IndexOfAny(r, 3, {"/", "?", "#"}) - 1) ELSE <<>>
AfterNetloc(r) == IF HasNetloc(r) THEN SubSeq(r, IndexOfAny(r, 3, {"/", "?", "#"}), Len(r)) ELSE r
netloc(url) == NetlocOf(AfterScheme(url))
path(url) ==
    SubSeq(AfterNetloc(AfterScheme(url)), 1,
           IndexOfAny(AfterNetloc(AfterScheme(url)), 1, {"?", "#"}) - 1)

\* urlparse(url) raises ValueError("Invalid IPv6 URL"): one bracket of the
\* pair in the netloc
urlparse_raises(url) ==
    ("[" \in Range(netloc(url))) /= ("]" \in Range(netloc(url)))

RECURSIVE SplitPath(_, _, _)
\* [p for p in parsed.path.split("/") if p]
SplitPath(s, cur, out) ==
    IF s = <<>> THEN (IF cur = <<>> THEN out ELSE Append(out, cur))
    ELSE IF Head(s) = "/"
         THEN SplitPath(Tail(s), <<>>, IF cur = <<>> THEN out ELSE Append(out, cur))
    ELSE SplitPath(Tail(s), Append(cur, Head(s)), out)

PathLabel(parts, url) ==
    IF Len(parts) >= 2 /\ parts[1] = <<"s">> THEN parts[2] ELSE netloc(url)

\* source_label_from_url(url) for a URL without query string, escapes and
\* double hyphens: the place of a /s/<place>/... path, else the netloc
source_label_from_url(url) ==
    IF urlparse_raises(url) THEN [raised |-> TRUE, value |-> None]
    ELSE [raised |-> FALSE, value |-> PathLabel(SplitPath(path(url), <<>>, <<>>), url)]

STR_EXC == <<"str(exc)">>

\* what the try block appends (or puts into row) when the extraction returns
DataEntry(s, url) ==
    IF s = "search_results"
    THEN [source_url |-> url, source_label |-> source_label_from_url(url).value,
          extracted |-> TRUE]
    ELSE [url |-> url, listing_id |-> room_id(url), extracted |-> TRUE]

\* what the except block appends (or puts into row)
ErrorEntry(s, url) ==
    IF s = "search_results"
    THEN [source_url |-> url, source_label |-> source_label_from_url(url).value,
          error |-> STR_EXC, count |-> 0, results |-> <<>>]
    ELSE [url |-> url, listing_id |-> room_id(url), error |-> STR_EXC]

\* the extraction of the page of u raises: the page fails, or, in the
\* search extractor, source_label_from_url(url) at the head of
\* _extract_from_search_page raises
ExtractionRaises(s, u) ==
    u.fails \/ (s = "search_results" /\ urlparse_raises(u.url))

\* the except block itself raises: the dict it builds calls
\* source_label_from_url(url)
HandlerRaises(s, u) == s = "search_results" /\ urlparse_raises(u.url)

(* Runs of main *)

MaxUrls == 3

URL_SEARCH == <<"h", ":", "/", "/", "a", "/", "s", "/", "P">>
URL_ROOM == <<"h", ":", "/", "/", "a", "/", "r", "o", "o", "m", "s", "/", "7">>
URL_BRACKET == <<"h", ":", "/", "/", "[", "a", "/", "s", "/", "P">>

\* an input URL and whether the extraction of its page fails
UrlInputs ==
    { [url |-> u, fails |-> f] : u \in {URL_SEARCH, URL_ROOM}, f \in BOOLEAN }
    \cup { [url |-> URL_BRACKET, fails |-> TRUE] }

Scripts == {"forward_calendar", "ratings_and_capacity", "search_results"}

InitMain ==
    /\ pc = "for"
    /\ script \in Scripts
    /\ urls \in UNION { [1..n -> UrlInputs] : n \in 0..MaxUrls }
    \* _load_urls of the search extractor removes repeated URLs
    /\ script = "search_results" =>
          \A i, j \in DOMAIN urls : i /= j => urls[i].url /= urls[j].url
    /\ url_i = 0
    /\ results = <<>>
    /\ pages = <<>>
    /\ row = None
    /\ NoCalls /\ NoExtract /\ NoScroll /\ NoDb /\ NoGroups /\ NoCards

\* for url in urls: page = context.new_page()
OpenPage ==
    /\ pc = "for"
    /\ url_i < Len(urls)
    /\ pages' = Append(pages, "open")
    /\ row' = IF script = "ratings_and_capacity"
              THEN [url |-> urls[url_i + 1].url, listing_id |-> room_id(urls[url_i + 1].url)]
              ELSE row
    /\ pc' = "try"
    /\ UNCHANGED <<script, urls, url_i, results, compressVars, buildVars, expandVars,
                   bandVars, inv, extractVars, scrollVars, dbVars, groupVars, cardVars>>

\* the try block
TryExtract ==
    /\ pc = "try"
    /\ IF ExtractionRaises(script, urls[url_i + 1])
       THEN pc' = "except" /\ UNCHANGED <<results, row>>
       ELSE /\ pc' = "finally"
            /\ IF script = "ratings_and_capacity"
               THEN row' = DataEntry(script, urls[url_i + 1].url) /\ UNCHANGED results
               ELSE results' = Append(results, DataEntry(script, urls[url_i + 1].url))
                    /\ UNCHANGED row
    /\ UNCHANGED <<script, urls, url_i, pages, compressVars, buildVars, expandVars,
                   bandVars, inv, extractVars, scrollVars, dbVars, groupVars, cardVars>>

\* except Exception as exc
Except ==
    /\ pc = "except"
    /\ IF HandlerRaises(script, urls[url_i + 1])
       THEN pc' = "finally_raising" /\ UNCHANGED <<results, row>>
       ELSE /\ pc' = "finally"
            /\ IF script = "ratings_and_capacity"
               THEN row' = ErrorEntry(script, urls[url_i + 1].url) /\ UNCHANGED results
               ELSE results' = Append(results, ErrorEntry(script, urls[url_i + 1].url))
                    /\ UNCHANGED row
    /\ UNCHANGED <<script, urls, url_i, pages, compressVars, buildVars, expandVars,
                   bandVars, inv, extractVars, scrollVars, dbVars, groupVars, cardVars>>

\* finally: page.close(); then the rest of the loop body, or the exception
\* of the except block leaves main
Finally ==
    /\ pc \in {"finally", "finally_raising"}
    /\ pages' = [pages EXCEPT ![Len(pages)] = "closed"]
    /\ IF pc = "finally_raising"
       THEN pc' = "aborted" /\ UNCHANGED <<url_i, results>>
       ELSE /\ pc' = "for"
            /\ url_i' = url_i + 1
            /\ results' = IF script = "ratings_and_capacity"
                          THEN Append(results, row) ELSE results
    /\ UNCHANGED <<script, urls, row, compressVars, buildVars, expandVars,
                   bandVars, inv, extractVars, scrollVars, dbVars, groupVars, cardVars>>

\* the loop is over: browser.close() and the output file is written
WriteOutput ==
    /\ pc = "for"
    /\ url_i = Len(urls)
    /\ pc' = "written"
    /\ UNCHANGED <<mainVars, compressVars, buildVars, expandVars,
                   bandVars, inv, extractVars, scrollVars, dbVars, groupVars, cardVars>>

NextMain == OpenPage \/ TryExtract \/ Except \/ Finally \/ WriteOutput

SpecMain == InitMain /\ [][NextMain]_vars

EntryUrl(e) == IF "url" \in DOMAIN e THEN e.url ELSE e.source_url
IsErrorEntry(e) == "error" \in DOMAIN e /\ e.error = STR_EXC

\* C24: in the main loop of each extractor a failure on one URL does not
\* stop the run: the run is never left by an exception, between two
\* iterations and at the end every URL handled so far has exactly one
\* entry in results, in input order, carrying its URL, an error record
\* exactly for the URLs whose extraction failed, every page opened is
\* closed, and the output is written only after all URLs were handled.
C24_FailureDoesNotStopRun ==
    /\ pc /= "aborted"
    /\ pc \in {"for", "written"} =>
          /\ Len(results) = url_i
          /\ \A i \in 1..url_i :
                /\ EntryUrl(results[i]) = urls[i].url
                /\ IsErrorEntry(results[i]) <=> ExtractionRaises(script, urls[i])
          /\ Len(pages) = url_i
          /\ \A i \in DOMAIN pages : pages[i] = "closed"
    /\ pc = "written" => url_i = Len(urls)

---------------------------------------------------------------------------
(* booked_ranges from the extractor to the dashboard: compress_ranges,     *)
(* json.dumps into listing_competitive_stats, _expand_iso_ranges           *)

InitRoundTrip ==
    /\ pc = "call"
    /\ dates \in { ds \in CompressInputs : Distinct(ds) }
    /\ ranges = <<>>
    /\ rows = <<>>
    /\ current_year = 0
    /\ built = <<>>
    /\ NoExpansion /\ NoBand /\ inv = <<>> /\ NoPipeline

\* persist_competitive_to_db: json.dumps(r.get("booked_ranges") or [])
StoreRanges ==
    /\ pc = "done"
    /\ arg_raw' = json_dumps(ranges)
    /\ pc' = "stored"
    /\ UNCHANGED <<arg_text, expanded, compressVars, buildVars, bandVars, inv, pipelineVars>>

\* build_calendars: _expand_iso_ranges(r.get("booked_ranges"))
LoadRanges ==
    /\ pc = "stored"
    /\ expanded' = _expand_iso_ranges(arg_raw)
    /\ pc' = "loaded"
    /\ UNCHANGED <<arg_text, arg_raw, compressVars, buildVars, bandVars, inv, pipelineVars>>

NextRoundTrip == CompressRanges \/ StoreRanges \/ LoadRanges

SpecRoundTrip == InitRoundTrip /\ [][NextRoundTrip]_vars

EarliestOf(D) == CHOOSE d \in D : \A e \in D : DateLeq(d, e)

RECURSIVE Ascending(_)
\* the days of a set, each once, earliest first
Ascending(D) ==
    IF D = {} THEN <<>> ELSE <<EarliestOf(D)>> \o Ascending(D \ {EarliestOf(D)})

\* C25: for any list of distinct dates, expanding the stored JSON text of
\* its compressed ranges returns exactly those dates, each once, in
\* ascending order, and raises nothing.
C25_RoundTrip ==
    pc = "loaded" => expanded = Returned(Ascending(DateSet(dates)))

\* four dates given out of order: a run of three days across a month end
\* and a single day, stored as a two-item JSON list
C25_Witness ==
    /\ pc = "loaded"
    /\ dates = <<isoformat(<<2026, 3, 5>>), isoformat(<<2026, 3, 2>>),
                 isoformat(<<2026, 2, 28>>), isoformat(<<2026, 3, 1>>)>>
    /\ Len(ranges) = 2
    /\ Len(ranges[1]) = 24
    /\ arg_raw = json_dumps(<<RangeItem(<<2026, 2, 28>>, <<2026, 3, 2>>),
                              isoformat(<<2026, 3, 5>>)>>)
    /\ Len(expanded.days) = 4

---------------------------------------------------------------------------
(* load_grouped_rows: the rows of the dashboard by source                  *)
(* (src/airbnb_dashboard.py)                                               *)

UNKNOWN_SOURCE == "Unknown source"

\* d.get("source_url") or "Unknown source"
GroupKey(d) == IF d.source_url = "" THEN UNKNOWN_SOURCE ELSE d.source_url

RECURSIVE AppendToGroup(_, _, _)
\* if key not in groups: groups[key] = {..., "rows": []}
\* groups[key]["rows"].append(d)
AppendToGroup(gs, key, d) ==
    IF gs = <<>> THEN << [source_url |-> key, rows |-> <<d>>] >>
    ELSE IF Head(gs).source_url = key
         THEN << [Head(gs) EXCEPT !.rows = Append(@, d)] >> \o Tail(gs)
    ELSE <<Head(gs)>> \o AppendToGroup(Tail(gs), key, d)

RECURSIVE GroupRows(_, _)
\* for r in rows: ...
GroupRows(rs, gs) ==
    IF rs = <<>> THEN gs
    ELSE GroupRows(Tail(rs), AppendToGroup(gs, GroupKey(Head(rs)), Head(rs)))

\* group["calendars"] = build_calendars(group["rows"]); out.append(group)
WithCalendars(g, cal, out) ==
    IF cal.raised \/ out.raised THEN [raised |-> TRUE, value |-> <<>>]
    ELSE [raised |-> FALSE,
          value |-> Append(out.value, [source_url |-> g.source_url, rows |-> g.rows,
                                       calendars |-> cal.calendars])]

RECURSIVE BuildGroups(_, _, _)
\* for group in groups.values(): ...  ; an exception of build_calendars
\* leaves load_grouped_rows
BuildGroups(gs, year, out) ==
    IF gs = <<>> \/ out.raised THEN out
    ELSE BuildGroups(Tail(gs), year,
                     WithCalendars(Head(gs), build_calendars(Head(gs).rows, year), out))

\* load_grouped_rows(db_path) on the rows the query returned, today's year
\* being year
load_grouped_rows(rs, year) ==
    BuildGroups(GroupRows(rs, <<>>), year, [raised |-> FALSE, value |-> <<>>])

(* Requests of the dashboard page *)

MaxDbRows == 3

DbRow(s, r) ==
    [ source_url |-> s, active |-> r.active, booked_ranges |-> r.booked_ranges,
      date_range_text |-> r.date_range_text ]

\* rows of two sources and of no source: booked two days of March, booked
\* "Feb 28-29" as free text, and inactive
DbRows ==
    { DbRow(s, r) : s \in {SOURCE_A, SOURCE_B, ""},
                    r \in { Row(1, ISO_MAR_1_2, None),
                            Row(1, None, TEXT_FEB_28_29),
                            Row(0, ISO_OVERLAP, None) } }

TODAY_YEAR == 2026

InitGroups ==
    /\ pc = "load_grouped_rows"
    /\ db_rows \in UNION { [1..n -> DbRows] : n \in 0..MaxDbRows }
    /\ current_year = TODAY_YEAR
    /\ groups = <<>>
    /\ dates = <<>> /\ ranges = <<>> /\ rows = <<>> /\ built = <<>>
    /\ NoExpansion /\ NoBand /\ inv = <<>>
    /\ NoExtract /\ NoScroll /\ NoDb /\ NoMain /\ NoCards

LoadGroupedRows ==
    /\ pc = "load_grouped_rows"
    /\ groups' = load_grouped_rows(db_rows, current_year).value
    /\ pc' = IF load_grouped_rows(db_rows, current_year).raised
             THEN "load_raised" ELSE "load_returned"
    /\ UNCHANGED <<db_rows, compressVars, buildVars, expandVars, bandVars, inv,
                   extractVars, scrollVars, dbVars, mainVars, cardVars>>

NextGroups == LoadGroupedRows

SpecGroups == InitGroups /\ [][NextGroups]_vars

SourceKey(r) == IF r.source_url = "" THEN "Unknown source" ELSE r.source_url
SourceKeys == { SourceKey(db_rows[i]) : i \in DOMAIN db_rows }
RECURSIVE RowsOfSource(_, _)
RowsOfSource(rs, k) ==
    IF rs = <<>> THEN <<>>
    ELSE (IF SourceKey(Head(rs)) = k THEN <<Head(rs)>> ELSE <<>>) \o RowsOfSource(Tail(rs), k)
GroupsOf(k) == { i \in DOMAIN groups : groups[i].source_url = k }
LoadOver == pc \in {"load_raised", "load_returned"}

\* C26: once the page's rows are loaded, the rows of every source (or of
\* "Unknown source") form exactly one group, holding exactly the rows of
\* that source, and the calendars of the group are those its own rows
\* yield, whatever the rows of the other groups are: whenever the rows of
\* a source on their own yield calendars, the group of that source is
\* there with exactly those calendars.
C26_GroupsAreIndependent ==
    LoadOver =>
        \A k \in SourceKeys :
            ~build_calendars(RowsOfSource(db_rows, k), current_year).raised =>
                /\ Cardinality(GroupsOf(k)) = 1
                /\ \A i \in GroupsOf(k) :
                      /\ groups[i].rows = RowsOfSource(db_rows, k)
                      /\ groups[i].calendars =
                            build_calendars(RowsOfSource(db_rows, k), current_year).calendars

---------------------------------------------------------------------------
(* _extract_from_search_page: one result per listing                       *)
(* (scripts/extract_airbnb_search_results.py)                              *)

ROOMS_URL == <<"https://www.airbnb.com/rooms/">>

RECURSIVE int(_)
\* int(s) of a run of digits
int(s) == IF s = <<>> THEN 0 ELSE 10 * int(SubSeq(s, 1, Len(s) - 1)) + DigitVal(s[Len(s)])

\* sum(v is not None for v in [rating, review_count, date_range_text,
\*                             total_price, nights])
Score(p) ==
    (IF p.rating /= None THEN 1 ELSE 0) + (IF p.review_count /= None THEN 1 ELSE 0)
    + (IF p.date_range_text /= None THEN 1 ELSE 0)
    + (IF p.total_price /= None THEN 1 ELSE 0) + (IF p.nights /= None THEN 1 ELSE 0)

\* by_listing.get(listing_id) is a dict (truthy), not None
Existing(by_listing, listing_id) ==
    \E i \in DOMAIN by_listing : by_listing[i][1] = listing_id

\* existing_score = -1; if existing: existing_score = sum(...)
ExistingScore(by_listing, listing_id) ==
    IF Existing(by_listing, listing_id) THEN Score(dict_get(by_listing, listing_id)) ELSE -1

\* a comparison slip, score >= existing_score: the latest card wins a tie
Replaces_OnTie(by_listing, listing_id, score) ==
    ~Existing(by_listing, listing_id) \/ score >= ExistingScore(by_listing, listing_id)

\* if not existing or score > existing_score
Replaces(by_listing, listing_id, score) ==
    ~Existing(by_listing, listing_id) \/ score > ExistingScore(by_listing, listing_id)

\* {"listing_id": ..., "listing_url": ..., **parsed, "card_text": ...}
ResultOf(listing_id, card) ==
    [ listing_id |-> listing_id, listing_url |-> ROOMS_URL \o listing_id,
      rating |-> card.parsed.rating, review_count |-> card.parsed.review_count,
      date_range_text |-> card.parsed.date_range_text,
      total_price |-> card.parsed.total_price, nights |-> card.parsed.nights,
      card_text |-> card.card_text ]

\* the loop body once the href carries a listing id
KeepCard(by_listing, listing_id, card) ==
    IF Replaces(by_listing, listing_id, Score(card.parsed))
    THEN dict_set(by_listing, listing_id, ResultOf(listing_id, card))
    ELSE by_listing

RECURSIVE ScanCards(_, _)
\* for row in raw_cards: ...
ScanCards(cards, by_listing) ==
    IF cards = <<>> THEN by_listing
    ELSE IF RoomIdSearch(Head(cards).href) = None THEN ScanCards(Tail(cards), by_listing)
    ELSE ScanCards(Tail(cards),
                   KeepCard(by_listing, RoomIdSearch(Head(cards).href), Head(cards)))

RECURSIVE InsertById(_, _)
InsertById(x, s) ==
    IF s = <<>> THEN <<x>>
    ELSE IF int(x.listing_id) < int(Head(s).listing_id) THEN <<x>> \o s
    ELSE <<Head(s)>> \o InsertById(x, Tail(s))

RECURSIVE sorted_by_id(_)
\* sorted(values, key=lambda x: int(x["listing_id"])): ascending, stable
sorted_by_id(s) ==
    IF s = <<>> THEN <<>>
    ELSE InsertById(s[Len(s)], sorted_by_id(SubSeq(s, 1, Len(s) - 1)))

\* list(by_listing.values())
dict_values(d) == [i \in DOMAIN d |-> d[i][2]]

\* count and results of the dict _extract_from_search_page returns
SearchResult(by_listing) ==
    [ count |-> Len(by_listing), results |-> sorted_by_id(dict_values(by_listing)) ]

(* Search pages with a few cards *)

MaxCards == 3

HREF_7 == URL_ROOM
HREF_12 == <<"h", ":", "/", "/", "a", "/", "r", "o", "o", "m", "s", "/", "1", "2", "?", "x">>
HREF_PLUS == <<"h", ":", "/", "/", "a", "/", "r", "o", "o", "m", "s", "/", "p">>

Parsed(r, c, d, p, n) ==
    [ rating |-> r, review_count |-> c, date_range_text |-> d, total_price |-> p,
      nights |-> n ]

\* what _parse_card_fields finds in the text of a card: nothing, rating and
\* reviews, price and nights, or everything
RATING == <<"4", ".", "8">>
REVIEWS == <<"1", "2">>
PRICE == <<"9", "0", "0">>
NIGHTS == <<"5">>
CardTexts ==
    { [card_text |-> <<"bare">>, parsed |-> Parsed(None, None, None, None, None)],
      [card_text |-> <<"rated">>, parsed |-> Parsed(RATING, REVIEWS, None, None, None)],
      [card_text |-> <<"priced">>, parsed |-> Parsed(None, None, None, PRICE, NIGHTS)],
      [card_text |-> <<"full">>, parsed |-> Parsed(RATING, REVIEWS, TEXT_MAR_1_3, PRICE, NIGHTS)] }

Cards ==
    { [href |-> h, card_text |-> t.card_text, parsed |-> t.parsed] :
          h \in {HREF_7, HREF_12, HREF_PLUS}, t \in CardTexts }

InitCards ==
    /\ pc = "cards"
    /\ raw_cards \in UNION { [1..n -> Cards] : n \in 0..MaxCards }
    /\ search_result = None
    /\ NoCalls /\ NoExtract /\ NoScroll /\ NoDb /\ NoMain /\ NoGroups

ExtractCards ==
    /\ pc = "cards"
    /\ search_result' = SearchResult(ScanCards(raw_cards, <<>>))
    /\ pc' = "cards_returned"
    /\ UNCHANGED <<raw_cards, compressVars, buildVars, expandVars, bandVars, inv,
                   extractVars, scrollVars, dbVars, mainVars, groupVars>>

NextCards == ExtractCards

SpecCards == InitCards /\ [][NextCards]_vars

\* the listing id an anchor stands for, read off the inputs
HasListingId(c) == c.href \in {HREF_7, HREF_12}
ListingIdOf(c) == IF c.href = HREF_7 THEN <<"7">> ELSE <<"1", "2">>
NumericId(id) == IF id = <<"7">> THEN 7 ELSE 12
CardsOf(id) == { i \in DOMAIN raw_cards : HasListingId(raw_cards[i]) /\ ListingIdOf(raw_cards[i]) = id }
NonNull(p) ==
    Cardinality({ f \in {"rating", "review_count", "date_range_text", "total_price", "nights"} :
                    p[f] /= None })
\* the earliest card of the listing among those with the most fields
BestCard(id) ==
    CHOOSE i \in CardsOf(id) :
        /\ \A j \in CardsOf(id) : NonNull(raw_cards[j].parsed) <= NonNull(raw_cards[i].parsed)
        /\ \A j \in CardsOf(id) :
              NonNull(raw_cards[j].parsed) = NonNull(raw_cards[i].parsed) => i <= j
ResultsFor(id) == { i \in DOMAIN search_result.results : search_result.results[i].listing_id = id }

\* C27: the results hold exactly one entry per listing id shown by a card,
\* taken from the earliest card among those of the listing with the most
\* non-null fields of rating, review_count, date_range_text, total_price
\* and nights; count is the number of results, and the results ascend by
\* numeric listing id.
C27_OneBestCardPerListing ==
    pc = "cards_returned" =>
        /\ \A id \in {<<"7">>, <<"1", "2">>} :
              Cardinality(ResultsFor(id)) = (IF CardsOf(id) = {} THEN 0 ELSE 1)
        /\ \A i \in DOMAIN search_result.results :
              /\ CardsOf(search_result.results[i].listing_id) /= {}
              /\ search_result.results[i].card_text
                    = raw_cards[BestCard(search_result.results[i].listing_id)].card_text
              /\ \A f \in {"rating", "review_count", "date_range_text", "total_price", "nights"} :
                    search_result.results[i][f]
                      = raw_cards[BestCard(search_result.results[i].listing_id)].parsed[f]
        /\ search_result.count = Len(search_result.results)
        /\ \A i, j \in DOMAIN search_result.results :
              i < j => NumericId(search_result.results[i].listing_id)
                         < NumericId(search_result.results[j].listing_id)

\* listing 12 shown first, listing 7 by two cards with two fields each and
\* different texts: two results, 7 before 12, the earlier card of 7 kept
C27_Witness ==
    /\ pc = "cards_returned"
    /\ Len(raw_cards) = 3
    /\ raw_cards[1].href = HREF_12
    /\ raw_cards[2].href = HREF_7 /\ raw_cards[2].card_text = <<"rated">>
    /\ raw_cards[3].href = HREF_7 /\ raw_cards[3].card_text = <<"priced">>
    /\ search_result.count = 2
    /\ search_result.results[1].listing_id = <<"7">>
    /\ search_result.results[1].card_text = <<"rated">>
    /\ search_result.results[2].listing_id = <<"1", "2">>

=============================================================================
